---- MODULE Spec2Model ----
(***************************************************************************)
(* namethatframe: the movie DB generator (reconcile, edit session, merge,  *)
(* persist) and the bingo card generator.                                  *)
(*                                                                         *)
(* Strings are sequences of one-character strings, so that the filename    *)
(* tests and the filename parser are computed the way the code computes    *)
(* them.  A MovieEntry is a record [filePath, movieTitle, movieYear].      *)
(***************************************************************************)
EXTENDS Integers, Sequences, FiniteSets, TLC

\* ------------------------------------------------------------------ bounds
\* longest directory listing handed to the reconciler
MaxScan == 2
\* most entries in the persisted movies.json
MaxDB == 2
\* most candidates a remote title search returns
MaxResults == 1
\* most makeCards calls in one process
MaxCalls == 2

\* ----------------------------------------------------------------- strings
Range(s) == { s[i] : i \in 1..Len(s) }

Digits == {"0", "1", "2", "3", "4", "5", "6", "7", "8", "9"}

LowerChars == <<"a","b","c","d","e","f","g","h","i","j","k","l","m",
                "n","o","p","q","r","s","t","u","v","w","x","y","z">>

UpperChars == <<"A","B","C","D","E","F","G","H","I","J","K","L","M",
                "N","O","P","Q","R","S","T","U","V","W","X","Y","Z">>

ToUpper(c) ==
  IF \E i \in 1..Len(LowerChars) : LowerChars[i] = c
  THEN UpperChars[CHOOSE i \in 1..Len(LowerChars) : LowerChars[i] = c]
  ELSE c

ToLower(c) ==
  IF \E i \in 1..Len(UpperChars) : UpperChars[i] = c
  THEN LowerChars[CHOOSE i \in 1..Len(UpperChars) : UpperChars[i] = c]
  ELSE c

IsSpace(c) == c = " "

\* s.slice(from) / s.slice(0, n) on 1-based sequences
DropFirst(s, n) == SubSeq(s, n + 1, Len(s))

TakeFirst(s, n) == SubSeq(s, 1, n)

LastN(s, n) == SubSeq(s, Len(s) - n + 1, Len(s))

RECURSIVE TrimLeft(_)
TrimLeft(s) ==
  IF s # <<>> /\ IsSpace(Head(s)) THEN TrimLeft(Tail(s)) ELSE s

RECURSIVE TrimRight(_)
TrimRight(s) ==
  IF s # <<>> /\ IsSpace(s[Len(s)]) THEN TrimRight(TakeFirst(s, Len(s) - 1)) ELSE s

\* String.prototype.trim
Trim(s) == TrimRight(TrimLeft(s))

\* s.endsWith(suffix)
EndsWith(s, suffix) ==
  Len(s) >= Len(suffix) /\ LastN(s, Len(suffix)) = suffix

\* s.replace(/_/g, "'")
ReplaceUnderscore(s) == [i \in 1..Len(s) |-> IF s[i] = "_" THEN "'" ELSE s[i]]

\* s.replace(/[\(\)\[\]]+/g, '')
StripBrackets(s) == SelectSeq(s, LAMBDA c : c \notin {"(", ")", "[", "]"})

\* s.split(/\s+/): the pieces between maximal runs of whitespace
RECURSIVE SplitSpaces(_, _)
SplitSpaces(s, cur) ==
  IF s = <<>> THEN <<cur>>
  ELSE IF IsSpace(Head(s)) THEN <<cur>> \o SplitSpaces(TrimLeft(s), <<>>)
  ELSE SplitSpaces(Tail(s), Append(cur, Head(s)))

\* tokens.join(' ')
RECURSIVE JoinSpace(_)
JoinSpace(tokens) ==
  IF tokens = <<>> THEN <<>>
  ELSE IF Len(tokens) = 1 THEN tokens[1]
  ELSE tokens[1] \o <<" ">> \o JoinSpace(Tail(tokens))

\* common.js capitalize
capitalize(word) ==
  [i \in 1..Len(word) |-> IF i = 1 THEN ToUpper(word[i]) ELSE ToLower(word[i])]

\* common.js titleCase (the v2 branch, the one that runs)
titleCase(txt) ==
  LET title == StripBrackets(ReplaceUnderscore(txt))
      tokens == SplitSpaces(title, <<>>)
  IN JoinSpace([idx \in 1..Len(tokens) |->
                  IF idx > 1 /\ Len(tokens[idx]) < 4
                  THEN tokens[idx] ELSE capitalize(tokens[idx])])

\* mutant: the test on the first character is left out
isFilenameOKAllowsHidden(filename) ==
  \/ EndsWith(filename, <<".", "p", "n", "g">>)
  \/ EndsWith(filename, <<".", "j", "p", "g">>)
  \/ EndsWith(filename, <<".", "g", "i", "f">>)

\* common.js isFilenameOK: /\.(png|jpg|gif)$/ matches and the name is not hidden
isFilenameOK(filename) ==
  /\ \/ EndsWith(filename, <<".", "p", "n", "g">>)
     \/ EndsWith(filename, <<".", "j", "p", "g">>)
     \/ EndsWith(filename, <<".", "g", "i", "f">>)
  /\ filename[1] # "."

\* --------------------------------------------------------------- filenames
StillsDir == <<"s", "t", "i", "l", "l", "s", "/">>

\* path.join('.', 'stills', filename) for a name readdir returns
StillPath(filename) == StillsDir \o filename

\* index of the last occurrence of c in s, 0 when there is none
LastIndexOf(s, c) ==
  IF \E i \in 1..Len(s) : s[i] = c
  THEN CHOOSE i \in 1..Len(s) : s[i] = c /\ \A j \in (i + 1)..Len(s) : s[j] # c
  ELSE 0

\* path.parse(p).base
PathBase(p) == DropFirst(p, LastIndexOf(p, "/"))

\* path.parse(p).name: the base without its extension (a leading dot starts no extension)
PathName(p) ==
  LET base == PathBase(p)
      dot == LastIndexOf(base, ".")
  IN IF dot > 1 THEN TakeFirst(base, dot - 1) ELSE base

\* ----------------------------------------------------------------- entries
Entry(fp, t, y) == [filePath |-> fp, movieTitle |-> t, movieYear |-> y]

\* movie.movieTitle && movie.movieYear
IsComplete(movie) == movie.movieTitle # <<>> /\ movie.movieYear # <<>>

FilePaths(movies) == { movies[i].filePath : i \in 1..Len(movies) }

DistinctPaths(movies) ==
  \A i, j \in 1..Len(movies) : movies[i].filePath = movies[j].filePath => i = j

\* Array.prototype.includes
Includes(list, x) == \E i \in 1..Len(list) : list[i] = x

\* --------------------------------------------------------------- reconciler
\* mutant: the reduce keeps every name, repeated or not
RemoveRepeatsKeepsAll(fileList, ra) == ra \o fileList

\* cleanUpFileList, step 1: the reduce that removes repeated names
RECURSIVE RemoveRepeats(_, _)
RemoveRepeats(fileList, ra) ==
  IF fileList = <<>> THEN ra
  ELSE RemoveRepeats(Tail(fileList),
                     IF Includes(ra, Head(fileList)) THEN ra ELSE Append(ra, Head(fileList)))

\* cleanUpFileList: drop repeats, map acceptable names to paths and the rest to
\* false, filter the false ones out
cleanUpFileList(fileList) ==
  LET unique == RemoveRepeats(fileList, <<>>)
      mapped == [i \in 1..Len(unique) |->
                   IF isFilenameOK(unique[i]) THEN StillPath(unique[i]) ELSE <<>>]
  IN SelectSeq(mapped, LAMBDA item : item # <<>>)

\* mutant: nothing is dropped
removeDeletedKeepsAll(movies, fileList) == movies

\* removeDeletedFilesFromDB: keep the entries whose filePath the scan includes
removeDeletedFilesFromDB(movies, fileList) ==
  SelectSeq(movies, LAMBDA cur : Includes(fileList, cur.filePath))

\* makeMovieEntry succeeds: filePath non-empty, it stats, its base name is acceptable
CanMakeMovieEntry(filePath, statOK) ==
  /\ filePath # <<>>
  /\ filePath \in statOK
  /\ isFilenameOK(PathBase(filePath))

\* makeMovieEntry(filePath): title and year default to ''
makeMovieEntry(filePath) == Entry(filePath, <<>>, <<>>)

\* mutant: the filesWeKnow test is missing, every scanned path gets a new entry
addNewFilesIgnoresKnown(movies, fileList, statOK) ==
  LET fresh == SelectSeq(fileList, LAMBDA filePath : CanMakeMovieEntry(filePath, statOK))
  IN movies \o [i \in 1..Len(fresh) |-> Entry(fresh[i], <<>>, <<>>)]

\* addNewFilesToDB: one blank entry per scanned path that is not known and for
\* which makeMovieEntry does not throw, appended in scan order
addNewFilesToDB(movies, fileList, statOK) ==
  LET filesWeKnow == [i \in 1..Len(movies) |-> movies[i].filePath]
      fresh == SelectSeq(fileList, LAMBDA filePath :
                 ~Includes(filesWeKnow, filePath) /\ CanMakeMovieEntry(filePath, statOK))
  IN movies \o [i \in 1..Len(fresh) |-> makeMovieEntry(fresh[i])]

\* ------------------------------------------------------------ filename parser
PreSep == {" ", "-", "("}

PostSep == {" ", "-", ")"}

AllDigits(s) == \A i \in 1..Len(s) : s[i] \in Digits

\* the suffix of name that /[\s\-\(\b]?(\d{4})[\s\-\)\b]?$/ matches, as
\* <<length of the match, the four digits>>; <<0, <<>>>> when nothing matches.
\* The leftmost match is the longest matching suffix.
YearMatch(name) ==
  LET n == Len(name)
  IN IF n >= 6 /\ name[n - 5] \in PreSep /\ AllDigits(SubSeq(name, n - 4, n - 1))
        /\ name[n] \in PostSep
     THEN <<6, SubSeq(name, n - 4, n - 1)>>
     ELSE IF n >= 5 /\ name[n - 4] \in PreSep /\ AllDigits(LastN(name, 4))
     THEN <<5, LastN(name, 4)>>
     ELSE IF n >= 5 /\ AllDigits(SubSeq(name, n - 4, n - 1)) /\ name[n] \in PostSep
     THEN <<5, SubSeq(name, n - 4, n - 1)>>
     ELSE IF n >= 4 /\ AllDigits(LastN(name, 4))
     THEN <<4, LastN(name, 4)>>
     ELSE <<0, <<>>>>

\* what /([^\(]+)/ captures: the first maximal run without "(" ; <<>> for no match
RECURSIVE TakeUntilParen(_)
TakeUntilParen(s) ==
  IF s = <<>> \/ Head(s) = "(" THEN <<>> ELSE <<Head(s)>> \o TakeUntilParen(Tail(s))

RECURSIVE FirstRunNoParen(_)
FirstRunNoParen(s) ==
  IF s = <<>> THEN <<>>
  ELSE IF Head(s) = "(" THEN FirstRunNoParen(Tail(s))
  ELSE TakeUntilParen(s)

\* mutant: the copy names the file by its base name alone
guessDetailsBaseOnly(movie) ==
  LET name == PathName(movie.filePath)
      m == YearMatch(name)
      year == IF m[1] > 0 THEN m[2] ELSE movie.movieYear
      raw == IF m[1] > 0 THEN Trim(TakeFirst(name, Len(name) - m[1])) ELSE name
      run == FirstRunNoParen(raw)
      title == IF run # <<>> THEN titleCase(Trim(run)) ELSE raw
  IN Entry(PathBase(movie.filePath), title, year)

\* guessDetailsFromFilename: a copy of the entry with the title (and, when the
\* name ends in a year, the year) replaced by what the file name says
guessDetailsFromFilename(movie) ==
  LET name == PathName(movie.filePath)
      m == YearMatch(name)
      year == IF m[1] > 0 THEN m[2] ELSE movie.movieYear
      raw == IF m[1] > 0 THEN Trim(TakeFirst(name, Len(name) - m[1])) ELSE name
      run == FirstRunNoParen(raw)
      title == IF run # <<>> THEN titleCase(Trim(run)) ELSE raw
  IN Entry(movie.filePath, title, year)

\* ------------------------------------------------------------ merge resolver
\* newMovies.find((nm) => nm.filePath === filePath): the first match
FindByPath(newMovies, filePath) ==
  LET hits == SelectSeq(newMovies, LAMBDA nm : nm.filePath = filePath)
  IN IF hits = <<>> THEN <<>> ELSE <<hits[1]>>

\* mutant: new entries that match no old entry are appended
mergeUpdatesAppendsUnmatched(newMovies, oldMovies) ==
  [i \in 1..Len(oldMovies) |->
     LET found == FindByPath(newMovies, oldMovies[i].filePath)
     IN IF found # <<>> THEN found[1] ELSE oldMovies[i]]
  \o SelectSeq(newMovies, LAMBDA nm : \A i \in 1..Len(oldMovies) :
                                         oldMovies[i].filePath # nm.filePath)

\* mergeUpdates: for every old entry, the matching new entry if there is one,
\* else the old entry
mergeUpdates(newMovies, oldMovies) ==
  [i \in 1..Len(oldMovies) |->
     LET found == FindByPath(newMovies, oldMovies[i].filePath)
     IN IF found # <<>> THEN found[1] ELSE oldMovies[i]]

\* -------------------------------------------------- persistence and exit codes
\* ERROR_CODES and the code of a bare process.exit()
EXIT_OK == 0

UNKNOWN_ERROR == 1

UNCAUGHT_ERROR == 2

FAILED_READING_MOVIES_JSON == 3

STILLS_DIR_DOESNT_EXIST == 4

UNABLE_TO_WRITE_MOVIE_DB == 5

\* QuitException(movieList): carries a copy of the list
QuitException(movieList) == movieList

\* mutant: the QuitException is passed on without the entries answered so far
RethrowQuitDropsProgress(newMovies, exMovieList) == QuitException(exMovieList)

\* fillInMovieDetails, the catch: the entries answered so far, then the list the
\* QuitException from askIfChangesNeeded carries
RethrowQuit(newMovies, exMovieList) == QuitException(newMovies \o exMovieList)

\* mutant: the backup misses the entry pushed last
writeToBackupFileStale(movies) ==
  [written |-> TRUE, movies |-> IF movies = <<>> THEN <<>> ELSE TakeFirst(movies, Len(movies) - 1)]

\* writeToBackupFile(movies): movies.bak.json becomes the bare array
writeToBackupFile(movies) == [written |-> TRUE, movies |-> movies]

\* mutant: the new entry is built from the two fields alone
AssignDetailsLosesPath(movie, movieTitle, movieYear) == Entry(<<>>, movieTitle, movieYear)

\* promptFileChanges / askTMDB: Object.assign({}, movie, { movieTitle, movieYear })
AssignDetails(movie, movieTitle, movieYear) ==
  [movie EXCEPT !.movieTitle = movieTitle, !.movieYear = movieYear]

\* mapFilenames(...).get(file): the index the Map holds for the path (the last
\* one set), 0 for undefined
MapGet(movies, file) ==
  IF \E k \in 1..Len(movies) : movies[k].filePath = file
  THEN CHOOSE k \in 1..Len(movies) :
         movies[k].filePath = file /\ \A j \in (k + 1)..Len(movies) : movies[j].filePath # file
  ELSE 0

\* main: movieDB.movies.filter((movie) => movie.movieTitle && movie.movieYear)
CompleteOf(movies) == SelectSeq(movies, IsComplete)

\* mutant: every entry is taken for incomplete
IncompleteOfEverything(movies) == movies

\* main: movieDB.movies.filter((movie) => !movie.movieTitle || !movie.movieYear)
IncompleteOf(movies) == SelectSeq(movies, LAMBDA movie : ~IsComplete(movie))

\* ------------------------------------------------------------ the environment
\* names the stills directory may hold
N_up == <<"u", "p", " ", "2", "0", "0", "9", ".", "j", "p", "g">>

N_jaws == <<"j", "a", "w", "s", ".", "p", "n", "g">>

N_hidden == <<".", "x", ".", "j", "p", "g">>

N_gone == <<"h", "e", "a", "t", " ", "(", "1", "9", "9", "5", ")", ".", "g", "i", "f">>

DirNames == {N_up, N_jaws, N_hidden}

\* file paths a persisted database may name (N_gone was deleted from disk)
DBPaths == {StillPath(N_up), StillPath(N_jaws), StillPath(N_gone)}

T_old == <<"O", "l", "d">>

Y_old == <<"1", "9", "9", "0">>

\* what the operator types at the title and year inputs
T_typed == <<"X">>

Y_typed == <<"1", "9", "9", "9">>

\* what the remote search returns, best match first; release_date may be empty
Candidates ==
  << [movieTitle |-> <<"T">>, movieYear |-> <<"2", "0", "0", "1">>],
     [movieTitle |-> <<"U">>, movieYear |-> <<>>],
     [movieTitle |-> <<"V">>, movieYear |-> <<"2", "0", "0", "3">>] >>

SearchResults ==
  { TakeFirst(Candidates, n) : n \in 0..(IF MaxResults < Len(Candidates)
                                        THEN MaxResults ELSE Len(Candidates)) }

\* all sequences over S of length at most n
RECURSIVE SeqsUpTo(_, _)
SeqsUpTo(S, n) ==
  IF n = 0 THEN {<<>>}
  ELSE LET shorter == SeqsUpTo(S, n - 1)
       IN shorter \cup { Append(q, x) : q \in shorter, x \in S }

\* directory listings: any names, repeats included
Listings == SeqsUpTo(DirNames, MaxScan)

\* persisted entries: complete or blank
DBEntries ==
  { Entry(fp, T_old, Y_old) : fp \in DBPaths } \cup { Entry(fp, <<>>, <<>>) : fp \in DBPaths }

\* persisted movie lists: file paths pairwise distinct
PersistedLists == { q \in SeqsUpTo(DBEntries, MaxDB) : DistinctPaths(q) }

\* ------------------------------------------------------------------- state
VARIABLES
  pc,          \* where the DB generator is suspended, "exited" after process.exit
  dir,         \* what readdir returns for ./stills
  json,        \* movies.json on disk: [lastScan, movies, partial]
  bak,         \* movies.bak.json on disk: [written, movies]
  movieDB,     \* main: movieDB, [lastScan, movies]
  oldMovies,   \* main: oldMovies, the complete entries after reconciliation
  phase,       \* "none", "old" (update existing entries) or "new" (incomplete entries)
  mode,        \* "list" (fillInMovieDetails) or "search" (searchForFileChanges)
  movies,      \* the movies parameter of the running edit function
  newMovies,   \* its newMovies local
  i,           \* its index: the loop index, or idx in search mode (1-based)
  cur,         \* the movie parameter of askIfChangesNeeded / promptFileChanges / askTMDB
  results,     \* askTMDB: movieSearch
  opened,      \* askTMDB: the still was opened in the browser at this prompt
  wbuf,        \* writeMovieDB: the database being written
  wnext,       \* what follows the awaited write: "afterOld", "hardExit" or "done"
  clock,       \* Date.now()
  exitCode,    \* the code process.exit was called with
  exitCause,   \* which call site ended the process
  exitAt,      \* where the process was suspended when it ended
  said,        \* the message logged right before process.exit
  reconciled,  \* history: movieDB.movies right after addNewFilesToDB
  edits,       \* history: the latest completed edit of each file, from the operator's input
  answers,     \* history: the entries the operator's answers produced in the running loop
  quit,        \* history: the operator answered quit
  declined,    \* history: the operator declined to update the existing entries
  arg,         \* inputs of the function under test
  ret,         \* the function applied and its result
  cardPc,      \* makeCards: "idle", "paging", "returned" or "threw"
  calls,       \* makeCards calls made by this process
  callNum,     \* the num argument of the running call, as passed
  num,         \* makeCards: num, after the rounding
  options,     \* the options argument: [isArray, length]
  items,       \* the elements of the caller's options array
  doc,         \* the PDF document of the running call: [created, pages]
  page,        \* makeCards: the loop variable
  threw,       \* which check threw
  topGrid,     \* card-pdf.js: the module-level topGrid array
  bottomGrid,  \* card-pdf.js: the module-level bottomGrid array
  gridsAtCall, \* history: the lengths of the two grids when the call was made
  useFree,     \* makeCards: the useFree parameter
  title,       \* makeCards: the title parameter
  shuffled,    \* makeCards: shuffled, the working pool
  drawn,       \* what the running turn of the page loop wrote: [titles, top, bottom]
  shufPc,      \* fyShuffle: "off", "loop" or "returned"
  iArray,      \* fyShuffle: iArray
  currentIndex,\* fyShuffle: currentIndex
  input,       \* history: iArray as passed
  draws,       \* history: the values of randomIndex, in order
  called,      \* history: the arguments of the running mergeUpdates as they were passed
  slidePc,     \* round generator: "off", "sheet", "meta", "slides", "saving", "saved" or "exited"
  names,       \* main: shuffledNames
  sheet,       \* the lines of the call sheet written
  completed,   \* the image.metadata() calls in the order they completed
  deck,        \* writePptx: the slides added to pptx, in order
  saved,       \* the pptx file on disk: [written, slides]
  movieMap     \* count.js main: movieMap after removeDuplicates, name -> chosen still

diskVars == <<json, bak>>

sessVars == <<phase, mode, movies, newMovies, i, cur>>

tmdbVars == <<results, opened>>

writeVars == <<movieDB, wbuf, wnext, clock>>

exitVars == <<exitCode, exitCause, exitAt, said>>

histVars == <<reconciled, edits, answers, quit, declined>>

fnVars == <<arg, ret>>

dbVars == <<pc, dir, oldMovies, diskVars, sessVars, tmdbVars, writeVars, exitVars, histVars>>

cardVars == <<cardPc, calls, callNum, num, options, items, doc, page, threw, topGrid, bottomGrid,
              gridsAtCall, useFree, title, shuffled, drawn>>

shufVars == <<shufPc, iArray, currentIndex, input, draws>>

slideVars == <<slidePc, names, sheet, completed, deck, saved, movieMap>>

otherVars == <<fnVars, cardVars, shufVars, slideVars, called>>

vars == <<dbVars, otherVars>>

NoEntry == Entry(<<>>, <<>>, <<>>)

\* the awaits of the program: operator prompts, the remote lookup, file reads and writes
PromptPcs == {"askEditOld", "askEditOption", "askChanges", "promptFields",
              "tmdbChoose", "searchPrompt", "promptContinue"}

SuspensionPcs == PromptPcs \cup {"start", "tmdbSearch", "writing"}

\* the state at process start, given the directory content and the persisted list
DBStart(listing, persisted) ==
  /\ dir = listing
  /\ json = [lastScan |-> 0, movies |-> persisted, partial |-> FALSE]
  /\ bak = [written |-> FALSE, movies |-> <<>>]
  /\ movieDB = [lastScan |-> 0, movies |-> <<>>]
  /\ oldMovies = <<>>
  /\ phase = "none"
  /\ mode = "list"
  /\ movies = <<>>
  /\ newMovies = <<>>
  /\ i = 0
  /\ cur = NoEntry
  /\ results = <<>>
  /\ opened = FALSE
  /\ wbuf = [lastScan |-> 0, movies |-> <<>>]
  /\ wnext = "done"
  /\ clock = 1
  /\ exitCode = EXIT_OK
  /\ exitCause = "none"
  /\ exitAt = "none"
  /\ said = "nothing"
  /\ reconciled = <<>>
  /\ edits = {}
  /\ answers = <<>>
  /\ quit = FALSE
  /\ declined = FALSE

DBInit ==
  /\ pc = "start"
  /\ \E listing \in Listings, persisted \in PersistedLists : DBStart(listing, persisted)

\* the DB generator is not run
DBIdle ==
  /\ pc = "off"
  /\ DBStart(<<>>, <<>>)

NoArg == [op |-> "none", edited |-> <<>>, full |-> <<>>, fileList |-> <<>>, statOK |-> {}]

FnIdle ==
  /\ called = NoArg
  /\ arg = NoArg
  /\ ret = [op |-> "none", value |-> <<>>]

\* a JavaScript number: an integer or NaN
Num(n) == [nan |-> FALSE, val |-> n]

NaN == [nan |-> TRUE, val |-> 0]

\* a page on which nothing was written yet
NothingDrawn == [titleTop |-> <<>>, titleBottom |-> <<>>, top |-> <<>>, bottom |-> <<>>]

\* makeCards is not running: its parameters and locals
CardsLocalsIdle ==
  /\ cardPc = "idle"
  /\ calls = 0
  /\ callNum = Num(0)
  /\ num = Num(0)
  /\ options = [isArray |-> TRUE, length |-> 0]
  /\ items = <<>>
  /\ doc = [created |-> FALSE, pages |-> 0]
  /\ page = 0
  /\ threw = "none"
  /\ gridsAtCall = <<0, 0>>
  /\ useFree = TRUE
  /\ title = <<>>
  /\ shuffled = <<>>
  /\ drawn = NothingDrawn

\* makeCards was never called: the module's two grids are empty
CardsIdle ==
  /\ CardsLocalsIdle
  /\ topGrid = <<>>
  /\ bottomGrid = <<>>

\* fyShuffle is not called
ShufIdle ==
  /\ shufPc = "off"
  /\ iArray = <<>>
  /\ currentIndex = 0
  /\ input = <<>>
  /\ draws = <<>>

\* the round generator is not run
SlidesIdle ==
  /\ slidePc = "off"
  /\ names = <<>>
  /\ sheet = <<>>
  /\ completed = <<>>
  /\ deck = <<>>
  /\ saved = [written |-> FALSE, slides |-> <<>>]
  /\ movieMap = <<>>

Init == DBInit /\ FnIdle /\ CardsIdle /\ ShufIdle /\ SlidesIdle

\* ------------------------------------------------------ shared continuations
\* hardExit: cconsole.info
SaidBackupAt == "Exiting. A backup movie db is at movies.bak.json"

\* main().catch: cconsole.error
SaidSomeError == "Some error occurred. A backup movie db is at movies.bak.json"

\* the message each call site of process.exit logs right before it
Diagnostic(cause) ==
  CASE cause = "readfail" -> "Error reading movies.json: "
    [] cause = "nostills" -> "Could not stat stills"
    [] cause = "writefail" -> "Error writing movies.json: "
    [] cause = "uncaught" -> SaidSomeError
    [] cause = "done" -> "Processing complete"
    [] OTHER -> SaidBackupAt

\* process.exit(code), after the message of the call site
Exit(code, cause) ==
  /\ pc' = "exited"
  /\ exitCode' = code
  /\ exitCause' = cause
  /\ exitAt' = pc
  /\ said' = Diagnostic(cause)

\* mutant: the database is written with the lastScan it was read with
StartWriteNoStamp(dbMovies, next) ==
  /\ movieDB' = [lastScan |-> movieDB.lastScan, movies |-> dbMovies]
  /\ wbuf' = [lastScan |-> movieDB.lastScan, movies |-> dbMovies]
  /\ wnext' = next
  /\ clock' = clock + 1
  /\ pc' = "writing"

\* writeMovieDB(movieDB): stamp lastScan, serialise, start the awaited write
StartWrite(dbMovies, next) ==
  /\ movieDB' = [lastScan |-> clock, movies |-> dbMovies]
  /\ wbuf' = [lastScan |-> clock, movies |-> dbMovies]
  /\ wnext' = next
  /\ clock' = clock + 1
  /\ pc' = "writing"

\* fillInMovieDetails(list) with acc already answered: prompt for the next entry,
\* or return acc to main, which merges it and writes the database
FillLoop(ph, list, acc, dbMovies, olds) ==
  IF Len(acc) < Len(list)
  THEN /\ pc' = "askChanges"
       /\ i' = Len(acc) + 1
       /\ cur' = guessDetailsFromFilename(list[Len(acc) + 1])
       /\ movieDB' = [movieDB EXCEPT !.movies = dbMovies]
       /\ UNCHANGED <<wbuf, wnext, clock>>
  ELSE /\ StartWrite(mergeUpdates(acc, IF ph = "old" THEN olds ELSE dbMovies),
                     IF ph = "old" THEN "afterOld" ELSE "done")
       /\ UNCHANGED <<i, cur>>

\* main from "// backup" on: back up the list, then fill in the incomplete entries
BeginNewPhase(dbMovies, olds) ==
  /\ bak' = writeToBackupFile(dbMovies)
  /\ phase' = "new"
  /\ mode' = "list"
  /\ movies' = IncompleteOf(dbMovies)
  /\ newMovies' = <<>>
  /\ answers' = <<>>
  /\ FillLoop("new", IncompleteOf(dbMovies), <<>>, dbMovies, olds)

\* fillInMovieDetails: push the answered entry, rewrite the backup, go on
PushEntry(result, answered) ==
  /\ mode = "list"
  /\ newMovies' = Append(newMovies, result)
  /\ bak' = writeToBackupFile(Append(newMovies, result))
  /\ edits' = { e \in edits : e.filePath # answered.filePath } \cup {answered}
  /\ answers' = Append(answers, answered)
  /\ FillLoop(phase, movies, Append(newMovies, result), movieDB.movies, oldMovies)
  /\ UNCHANGED <<phase, mode, movies, json, dir, oldMovies, exitVars,
                 reconciled, quit, declined, otherVars>>

\* ------------------------------------------------------------- main: scanning
\* which of the scanned files statSync finds: all of them, or all but one that
\* went away after readdir
StatChoices(fileList) ==
  {Range(fileList)} \cup { Range(fileList) \ {p} : p \in Range(fileList) }

\* getMovieJSON rejects: process.exit(FAILED_READING_MOVIES_JSON)
ReadFails ==
  /\ pc = "start"
  /\ Exit(FAILED_READING_MOVIES_JSON, "readfail")
  /\ UNCHANGED <<dir, oldMovies, diskVars, sessVars, tmdbVars, writeVars, histVars, otherVars>>

\* getFileList: stat of ./stills rejects: process.exit(STILLS_DIR_DOESNT_EXIST)
StillsMissing ==
  /\ pc = "start"
  /\ Exit(STILLS_DIR_DOESNT_EXIST, "nostills")
  /\ UNCHANGED <<dir, oldMovies, diskVars, sessVars, tmdbVars, writeVars, histVars, otherVars>>

\* main rejects before the first prompt (readdir of ./stills rejects, or
\* movies.json parses to something without a movies array): main().catch logs
\* and calls process.exit(UNCAUGHT_ERROR)
ScanRejects ==
  /\ pc = "start"
  /\ Exit(UNCAUGHT_ERROR, "uncaught")
  /\ UNCHANGED <<dir, oldMovies, diskVars, sessVars, tmdbVars, writeVars, histVars, otherVars>>

\* main up to the first prompt: read, scan, drop deleted, add new, then either
\* ask about the existing entries or go straight to the incomplete ones
Reconcile ==
  /\ pc = "start"
  /\ \E statOK \in StatChoices(cleanUpFileList(dir)) :
       LET fileList == cleanUpFileList(dir)
           kept == removeDeletedFilesFromDB(json.movies, fileList)
           all == addNewFilesToDB(kept, fileList, statOK)
           olds == CompleteOf(all)
       IN /\ reconciled' = all
          /\ oldMovies' = olds
          /\ IF Len(olds) > 0
             THEN /\ pc' = "askEditOld"
                  /\ movieDB' = [lastScan |-> json.lastScan, movies |-> all]
                  /\ UNCHANGED <<bak, sessVars, wbuf, wnext, clock, answers>>
             ELSE BeginNewPhase(all, olds)
  /\ UNCHANGED <<dir, json, tmdbVars, exitVars, edits, quit, declined, otherVars>>

\* 'Would you like to update existing entries?' answered yes
AcceptEditOld ==
  /\ pc = "askEditOld"
  /\ pc' = "askEditOption"
  /\ UNCHANGED <<dir, oldMovies, diskVars, sessVars, tmdbVars, writeVars, exitVars,
                 histVars, otherVars>>

\* ... answered no
DeclineEditOld ==
  /\ pc = "askEditOld"
  /\ declined' = TRUE
  /\ BeginNewPhase(movieDB.movies, oldMovies)
  /\ UNCHANGED <<dir, oldMovies, json, tmdbVars, exitVars, reconciled, edits, quit, otherVars>>

\* editOption 'list': fillInMovieDetails(oldMovies)
ChooseList ==
  /\ pc = "askEditOption"
  /\ phase' = "old"
  /\ mode' = "list"
  /\ movies' = oldMovies
  /\ newMovies' = <<>>
  /\ answers' = <<>>
  /\ FillLoop("old", oldMovies, <<>>, movieDB.movies, oldMovies)
  /\ UNCHANGED <<dir, oldMovies, diskVars, tmdbVars, exitVars, reconciled, edits, quit,
                 declined, otherVars>>

\* editOption 'search': searchForFileChanges(oldMovies), newMovies = movies.slice()
ChooseSearch ==
  /\ pc = "askEditOption"
  /\ phase' = "old"
  /\ mode' = "search"
  /\ movies' = oldMovies
  /\ newMovies' = oldMovies
  /\ pc' = "searchPrompt"
  /\ UNCHANGED <<dir, oldMovies, diskVars, i, cur, tmdbVars, writeVars, exitVars,
                 histVars, otherVars>>

\* --------------------------------------------------------------- search mode
\* what the operator may type at the autocomplete prompt
SearchInputs == FilePaths(movies) \cup {<<>>, StillPath(N_gone)}

\* the autocomplete prompt answered: a known file is edited, anything else is not
SearchAnswer ==
  /\ pc = "searchPrompt"
  /\ \E file \in SearchInputs :
       LET idx == MapGet(movies, file)
       IN IF file # <<>> /\ idx >= 1
          THEN /\ pc' = "promptFields"
               /\ i' = idx
               /\ cur' = movies[idx]
          ELSE /\ pc' = "promptContinue"
               /\ UNCHANGED <<i, cur>>
  /\ UNCHANGED <<dir, oldMovies, diskVars, phase, mode, movies, newMovies, tmdbVars,
                 writeVars, exitVars, histVars, otherVars>>

\* the values promptFileChanges can return: the default or what was typed
TitleInputs(movie) == {movie.movieTitle, T_typed}

YearInputs(movie) == {movie.movieYear, Y_typed}

\* promptFileChanges answered in search mode: newMovies[idx] = ..., backup
EnterFieldsSearch ==
  /\ pc = "promptFields"
  /\ mode = "search"
  /\ \E t \in TitleInputs(cur), y \in YearInputs(cur) :
       LET done == [newMovies EXCEPT ![i] = AssignDetails(cur, t, y)]
           answered == Entry(movies[i].filePath, t, y)
       IN /\ newMovies' = done
          /\ bak' = writeToBackupFile(done)
          /\ edits' = { e \in edits : e.filePath # answered.filePath } \cup {answered}
  /\ pc' = "promptContinue"
  /\ UNCHANGED <<dir, oldMovies, json, phase, mode, movies, i, cur, tmdbVars, writeVars,
                 exitVars, reconciled, answers, quit, declined, otherVars>>

\* 'Would you like to continue?' answered yes
ContinueSearch ==
  /\ pc = "promptContinue"
  /\ pc' = "searchPrompt"
  /\ UNCHANGED <<dir, oldMovies, diskVars, sessVars, tmdbVars, writeVars, exitVars,
                 histVars, otherVars>>

\* ... answered no: main merges the returned list into oldMovies and writes it
FinishSearch ==
  /\ pc = "promptContinue"
  /\ StartWrite(mergeUpdates(newMovies, oldMovies), "afterOld")
  /\ UNCHANGED <<dir, oldMovies, diskVars, sessVars, tmdbVars, exitVars, histVars, otherVars>>

\* ----------------------------------------------------------------- list mode
\* askIfChangesNeeded answered 'yes': promptFileChanges(movie)
AnswerYes ==
  /\ pc = "askChanges"
  /\ pc' = "promptFields"
  /\ UNCHANGED <<dir, oldMovies, diskVars, sessVars, tmdbVars, writeVars, exitVars,
                 histVars, otherVars>>

\* ... answered 'no': the displayed entry is returned as it is
AnswerNo ==
  /\ pc = "askChanges"
  /\ PushEntry(cur, Entry(movies[i].filePath, cur.movieTitle, cur.movieYear))
  /\ UNCHANGED tmdbVars

\* ... answered 'tmdb': askTMDB(movie) awaits the remote search
AnswerTmdb ==
  /\ pc = "askChanges"
  /\ pc' = "tmdbSearch"
  /\ UNCHANGED <<dir, oldMovies, diskVars, sessVars, tmdbVars, writeVars, exitVars,
                 histVars, otherVars>>

\* ... answered 'quit': QuitException([movie]) goes up through fillInMovieDetails
\* to main, which merges the list it carries and writes the database
AnswerQuit ==
  /\ pc = "askChanges"
  /\ LET movieList == RethrowQuit(newMovies, QuitException(<<cur>>))
     IN StartWrite(mergeUpdates(movieList,
                                IF phase = "old" THEN oldMovies ELSE movieDB.movies),
                   "hardExit")
  /\ quit' = TRUE
  /\ UNCHANGED <<dir, oldMovies, diskVars, sessVars, tmdbVars, exitVars, reconciled,
                 edits, answers, declined, otherVars>>

\* promptFileChanges answered in list mode
EnterFieldsList ==
  /\ pc = "promptFields"
  /\ mode = "list"
  /\ \E t \in TitleInputs(cur), y \in YearInputs(cur) :
       PushEntry(AssignDetails(cur, t, y), Entry(movies[i].filePath, t, y))
  /\ UNCHANGED tmdbVars

\* askTMDB: searchMovie throws, the catch calls hardExit
TmdbThrows ==
  /\ pc = "tmdbSearch"
  /\ Exit(EXIT_OK, "lookup")
  /\ UNCHANGED <<dir, oldMovies, diskVars, sessVars, tmdbVars, writeVars, histVars, otherVars>>

\* askTMDB: no matches, askIfChangesNeeded(movie) again
TmdbNoMatch ==
  /\ pc = "tmdbSearch"
  /\ <<>> \in SearchResults
  /\ pc' = "askChanges"
  /\ UNCHANGED <<dir, oldMovies, diskVars, sessVars, tmdbVars, writeVars, exitVars,
                 histVars, otherVars>>

\* askTMDB: matches, the candidate list is shown
TmdbMatches ==
  /\ pc = "tmdbSearch"
  /\ \E r \in SearchResults \ {<<>>} : results' = r
  /\ opened' = FALSE
  /\ pc' = "tmdbChoose"
  /\ UNCHANGED <<dir, oldMovies, diskVars, sessVars, writeVars, exitVars, histVars, otherVars>>

\* 'Open still in browser': the list is shown again
TmdbOpen ==
  /\ pc = "tmdbChoose"
  /\ opened' = TRUE
  /\ UNCHANGED <<pc, dir, oldMovies, diskVars, sessVars, results, writeVars, exitVars,
                 histVars, otherVars>>

\* 'Cancel': askIfChangesNeeded(movie) again
TmdbCancel ==
  /\ pc = "tmdbChoose"
  /\ pc' = "askChanges"
  /\ results' = <<>>
  /\ opened' = FALSE
  /\ UNCHANGED <<dir, oldMovies, diskVars, sessVars, writeVars, exitVars, histVars, otherVars>>

\* a candidate selected: its title and year replace the entry's
TmdbSelect ==
  /\ pc = "tmdbChoose"
  /\ \E k \in 1..Len(results) :
       PushEntry(AssignDetails(cur, results[k].movieTitle, results[k].movieYear),
                 Entry(movies[i].filePath, results[k].movieTitle, results[k].movieYear))
  /\ results' = <<>>
  /\ opened' = FALSE

\* ------------------------------------------------------ writing and exiting
\* what fs.writeFile leaves when it does not finish: a truncated file
PartialFile == [lastScan |-> 0, movies |-> <<>>, partial |-> TRUE]

WrittenFile(db) == [lastScan |-> db.lastScan, movies |-> db.movies, partial |-> FALSE]

\* the write after the existing entries were edited resolves: main goes on with
\* the backup and the incomplete entries
WriteDoneAfterOld ==
  /\ pc = "writing"
  /\ wnext = "afterOld"
  /\ json' = WrittenFile(wbuf)
  /\ BeginNewPhase(movieDB.movies, oldMovies)
  /\ UNCHANGED <<dir, oldMovies, tmdbVars, exitVars, reconciled, edits, quit, declined, otherVars>>

\* the write in a QuitException handler resolves: hardExit()
WriteDoneQuit ==
  /\ pc = "writing"
  /\ wnext = "hardExit"
  /\ json' = WrittenFile(wbuf)
  /\ Exit(EXIT_OK, "quit")
  /\ UNCHANGED <<dir, oldMovies, bak, sessVars, tmdbVars, writeVars, histVars, otherVars>>

\* the final write resolves: main resolves, process.exit(0)
WriteDoneFinish ==
  /\ pc = "writing"
  /\ wnext = "done"
  /\ json' = WrittenFile(wbuf)
  /\ Exit(EXIT_OK, "done")
  /\ UNCHANGED <<dir, oldMovies, bak, sessVars, tmdbVars, writeVars, histVars, otherVars>>

\* mutant: a failed write ends the process like a normal exit
WriteFailsExitsZero ==
  /\ pc = "writing"
  /\ json' \in {json, PartialFile}
  /\ Exit(EXIT_OK, "writefail")
  /\ UNCHANGED <<dir, oldMovies, bak, sessVars, tmdbVars, writeVars, histVars, otherVars>>

\* writeMovieDB: the write rejects: process.exit(UNABLE_TO_WRITE_MOVIE_DB)
WriteFails ==
  /\ pc = "writing"
  /\ json' \in {json, PartialFile}
  /\ Exit(UNABLE_TO_WRITE_MOVIE_DB, "writefail")
  /\ UNCHANGED <<dir, oldMovies, bak, sessVars, tmdbVars, writeVars, histVars, otherVars>>

\* process.on("SIGINT", hardExit): a log line and process.exit(), at any await
Sigint ==
  /\ pc \in SuspensionPcs
  /\ json' \in (IF pc = "writing" THEN {json, PartialFile, WrittenFile(wbuf)} ELSE {json})
  /\ Exit(EXIT_OK, "sigint")
  /\ UNCHANGED <<dir, oldMovies, bak, sessVars, tmdbVars, writeVars, histVars, otherVars>>

DBNext ==
  \/ ReadFails
  \/ StillsMissing
  \/ ScanRejects
  \/ Reconcile
  \/ AcceptEditOld
  \/ DeclineEditOld
  \/ ChooseList
  \/ ChooseSearch
  \/ SearchAnswer
  \/ EnterFieldsSearch
  \/ ContinueSearch
  \/ FinishSearch
  \/ AnswerYes
  \/ AnswerNo
  \/ AnswerTmdb
  \/ AnswerQuit
  \/ EnterFieldsList
  \/ TmdbThrows
  \/ TmdbNoMatch
  \/ TmdbMatches
  \/ TmdbOpen
  \/ TmdbCancel
  \/ TmdbSelect
  \/ WriteDoneAfterOld
  \/ WriteDoneQuit
  \/ WriteDoneFinish
  \/ WriteFails
  \/ Sigint

Next == DBNext

Spec == Init /\ [][Next]_vars

\* ------------------------------------------- the pure functions, on their own
N_memo == <<"m", "e", "m", "o", ".", "t", "x", "t">>

FnNames == {N_up, N_jaws, N_hidden, N_memo}

\* entries the lists under test are made of
FnEntries ==
  { Entry(fp, d[1], d[2]) : fp \in DBPaths,
                            d \in {<<T_old, Y_old>>, <<<<>>, <<>>>>, <<T_typed, Y_typed>>} }

\* movie lists as the program holds them: file paths pairwise distinct
FnLists == { q \in SeqsUpTo(FnEntries, MaxDB) : DistinctPaths(q) }

MergeArgs ==
  { [op |-> "merge", edited |-> e, full |-> f, fileList |-> <<>>, statOK |-> {}] :
      e \in FnLists, f \in FnLists }

\* scans as getFileList returns them: cleaned listings
CleanScans == { cleanUpFileList(l) : l \in SeqsUpTo(FnNames, MaxScan) }

ReconcileArgs ==
  { [op |-> "reconcile", edited |-> <<>>, full |-> f, fileList |-> fl, statOK |-> st] :
      f \in PersistedLists, fl \in CleanScans, st \in SUBSET {StillPath(N_up), StillPath(N_jaws)} }

\* longest directory listing handed to cleanUpFileList
MaxListing == 3

\* names readdir may return: three kinds of image, a hidden file, a text file
CleanNames == FnNames \cup {N_gone}

CleanArgs ==
  { [op |-> "clean", edited |-> <<>>, full |-> <<>>, fileList |-> l, statOK |-> {}] :
      l \in SeqsUpTo(CleanNames, MaxListing) }

FnInit ==
  /\ DBIdle
  /\ CardsIdle
  /\ ShufIdle
  /\ SlidesIdle
  /\ called = NoArg
  /\ arg \in MergeArgs \cup ReconcileArgs \cup CleanArgs
  /\ ret = [op |-> "none", value |-> <<>>]

ApplyMerge ==
  /\ arg.op = "merge"
  /\ ret.op = "none"
  /\ ret' = [op |-> "mergeUpdates", value |-> mergeUpdates(arg.edited, arg.full)]
  /\ UNCHANGED <<arg, dbVars, slideVars, called, cardVars, shufVars>>

ApplyRemove ==
  /\ arg.op = "reconcile"
  /\ ret.op = "none"
  /\ ret' = [op |-> "removeDeletedFilesFromDB",
             value |-> removeDeletedFilesFromDB(arg.full, arg.fileList)]
  /\ UNCHANGED <<arg, dbVars, slideVars, called, cardVars, shufVars>>

ApplyAdd ==
  /\ arg.op = "reconcile"
  /\ ret.op = "none"
  /\ ret' = [op |-> "addNewFilesToDB",
             value |-> addNewFilesToDB(arg.full, arg.fileList, arg.statOK)]
  /\ UNCHANGED <<arg, dbVars, slideVars, called, cardVars, shufVars>>

\* main: drop the deleted files, then add the new ones
ApplyReconcile ==
  /\ arg.op = "reconcile"
  /\ ret.op = "none"
  /\ ret' = [op |-> "reconcile",
             value |-> addNewFilesToDB(removeDeletedFilesFromDB(arg.full, arg.fileList),
                                       arg.fileList, arg.statOK)]
  /\ UNCHANGED <<arg, dbVars, slideVars, called, cardVars, shufVars>>

ApplyClean ==
  /\ arg.op = "clean"
  /\ ret.op = "none"
  /\ ret' = [op |-> "cleanUpFileList", value |-> cleanUpFileList(arg.fileList)]
  /\ UNCHANGED <<arg, dbVars, slideVars, called, cardVars, shufVars>>

FnNext ==
  \/ ApplyMerge
  \/ ApplyRemove
  \/ ApplyAdd
  \/ ApplyReconcile
  \/ ApplyClean

SpecFn == FnInit /\ [][FnNext]_vars

\* ------------------------------------------- mergeUpdates, turn by turn
\* mutant: the reducer also stores the chosen entry in oldMovies
MergeStepInPlace(a, acc, chosen) ==
  [arg |-> [a EXCEPT !.full[Len(acc) + 1] = chosen], movies |-> Append(acc, chosen)]

\* one call of the reducer: movies.push(...) on the accumulator, the two
\* argument lists are only read
MergeStep(a, acc, chosen) ==
  [arg |-> a, movies |-> Append(acc, chosen)]

\* mergeUpdates(newMovies, oldMovies) is called; reduce starts from a fresh []
MergeInit ==
  /\ DBIdle
  /\ CardsIdle
  /\ ShufIdle
  /\ SlidesIdle
  /\ arg \in MergeArgs
  /\ called = arg
  /\ ret = [op |-> "reducing", value |-> <<>>]

\* the reducer runs for the next entry of oldMovies
MergeTurn ==
  /\ ret.op = "reducing"
  /\ Len(ret.value) < Len(arg.full)
  /\ LET movie == arg.full[Len(ret.value) + 1]
         newMovie == FindByPath(arg.edited, movie.filePath)
         after == MergeStep(arg, ret.value, IF newMovie # <<>> THEN newMovie[1] ELSE movie)
     IN /\ arg' = after.arg
        /\ ret' = [ret EXCEPT !.value = after.movies]
  /\ UNCHANGED <<called, dbVars, slideVars, cardVars, shufVars>>

\* reduce returns the accumulator
MergeReturns ==
  /\ ret.op = "reducing"
  /\ Len(ret.value) = Len(arg.full)
  /\ ret' = [ret EXCEPT !.op = "mergeUpdates"]
  /\ UNCHANGED <<arg, called, dbVars, slideVars, cardVars, shufVars>>

MergeNext ==
  \/ MergeTurn
  \/ MergeReturns

SpecMerge == MergeInit /\ [][MergeNext]_vars

\* ------------------------------------- count.js main 124-133, slideshow.js
\* longest game: the names kept by slice(0, gameLength)
MaxSlides == 3

S_up == <<"U", "p">>

S_jaws == <<"J", "a", "w", "s">>

S_heat == <<"H", "e", "a", "t">>

\* a second still of Jaws
N_shark == <<"j", "a", "w", "s", " ", "2", ".", "p", "n", "g">>

\* the stills the database holds for a name; dedupeRandom keeps one of them
StillsOf(name) ==
  CASE name = S_up -> {StillPath(N_up)}
    [] name = S_jaws -> {StillPath(N_jaws), StillPath(N_shark)}
    [] OTHER -> {StillPath(N_gone)}

SlideNames == {S_up, S_jaws, S_heat}

\* what sharp reports for an image: a width that differs from still to still
metadata(slidePath) == [width |-> 72 * Len(slidePath)]

DigitChars == <<"0", "1", "2", "3", "4", "5", "6", "7", "8", "9">>

\* `${n}` for a natural number
RECURSIVE NumStr(_)
NumStr(n) ==
  IF n < 10 THEN <<DigitChars[n + 1]>>
  ELSE NumStr(n \div 10) \o <<DigitChars[(n % 10) + 1]>>

\* writeSlideCallSheet: names.map((n, i) => `${i + 1}. ${n}`), lines 1-based here
CallSheetLines(list) ==
  [k \in 1..Len(list) |-> NumStr(k) \o <<".", " ">> \o list[k]]

\* mutant: the results come in the order the calls completed
PromiseAllAsCompleted(slides, order) ==
  [k \in 1..Len(slides) |-> metadata(slides[order[k]])]

\* Promise.all(slidePromises): the results in the order of the promises,
\* whatever the order in which they resolved
PromiseAll(slides, order) ==
  [k \in 1..Len(slides) |-> metadata(slides[k])]

\* main: const slides = shuffledNames.map((name) => movieMap.get(name))
SlidesOf(list, map) == [k \in 1..Len(list) |-> map[list[k]]]

\* main line 126: shuffledNames is some order of some of the names of movieMap
SlidesInit ==
  /\ DBIdle
  /\ FnIdle
  /\ CardsIdle
  /\ ShufIdle
  /\ slidePc = "sheet"
  /\ movieMap \in { m \in [SlideNames -> UNION { StillsOf(n) : n \in SlideNames }] :
                      \A n \in SlideNames : m[n] \in StillsOf(n) }
  /\ names \in { q \in SeqsUpTo(SlideNames, MaxSlides) :
                   \A a, b \in 1..Len(q) : a # b => q[a] # q[b] }
  /\ sheet = <<>>
  /\ completed = <<>>
  /\ deck = <<>>
  /\ saved = [written |-> FALSE, slides |-> <<>>]

\* writeSlideCallSheet(shuffledNames) writes the file
WriteCallSheet ==
  /\ slidePc = "sheet"
  /\ sheet' = CallSheetLines(names)
  /\ slidePc' = "metadata"
  /\ UNCHANGED <<names, completed, deck, saved, movieMap, dbVars, fnVars, called, cardVars, shufVars>>

\* writeSlideCallSheet: writeFileSync throws, the catch logs, main goes on
CallSheetFails ==
  /\ slidePc = "sheet"
  /\ slidePc' = "metadata"
  /\ UNCHANGED <<names, sheet, completed, deck, saved, movieMap, dbVars, fnVars, called, cardVars, shufVars>>

\* one of the queued image.metadata() calls resolves
MetaResolves ==
  /\ slidePc = "metadata"
  /\ \E k \in 1..Len(names) :
       /\ ~Includes(completed, k)
       /\ completed' = Append(completed, k)
  /\ UNCHANGED <<slidePc, names, sheet, deck, saved, movieMap, dbVars, fnVars, called, cardVars, shufVars>>

\* one of them rejects: Promise.all rejects, the catch calls process.exit(1)
MetaRejects ==
  /\ slidePc = "metadata"
  /\ Len(completed) < Len(names)
  /\ slidePc' = "exited"
  /\ UNCHANGED <<names, sheet, completed, deck, saved, movieMap, dbVars, fnVars, called, cardVars, shufVars>>

\* Promise.all resolved: allData.forEach adds slide idx with the image
\* slides[idx], the size allData[idx] reports and the text idx + 1
AddSlides ==
  /\ slidePc = "metadata"
  /\ Len(completed) = Len(names)
  /\ LET slides == SlidesOf(names, movieMap)
         allData == PromiseAll(slides, completed)
     IN deck' = [idx \in 1..Len(allData) |->
                   [path |-> slides[idx], w |-> allData[idx].width \div 72,
                    text |-> NumStr(idx)]]
  /\ slidePc' = "added"
  /\ UNCHANGED <<names, sheet, completed, saved, movieMap, dbVars, fnVars, called, cardVars, shufVars>>

\* savePptx(pptx, ...)
SavePptx ==
  /\ slidePc = "added"
  /\ saved' = [written |-> TRUE, slides |-> deck]
  /\ slidePc' = "saved"
  /\ UNCHANGED <<names, sheet, completed, deck, movieMap, dbVars, fnVars, called, cardVars, shufVars>>

SlidesNext ==
  \/ WriteCallSheet
  \/ CallSheetFails
  \/ MetaResolves
  \/ MetaRejects
  \/ AddSlides
  \/ SavePptx

SpecSlides == SlidesInit /\ [][SlidesNext]_vars

\* ------------------------------------------------------ common.js fyShuffle
\* longest array shuffled turn by turn
MaxArr == 3

\* the values Math.floor(Math.random() * currentIndex) takes
RandomIndexes(c) == 0..(c - 1)

\* mutant: the element at currentIndex is overwritten and never put back
ShuffleStepOverwrites(a, c, r) == [a EXCEPT ![c] = a[r + 1]]

\* mutant: the drawn element is swapped with the first element
ShuffleStepSwapsFirst(a, c, r) == [a EXCEPT ![1] = a[r + 1], ![r + 1] = a[1]]

\* one turn of the loop, entered with currentIndex = c and drawing randomIndex = r:
\* currentIndex -= 1, then iArray[currentIndex] and iArray[randomIndex] change
\* places (the sequence is 1-based: positions c and r + 1)
ShuffleStep(a, c, r) == [a EXCEPT ![c] = a[r + 1], ![r + 1] = a[c]]

\* the turns of the loop entered with currentIndex = hi, hi - 1, ..., lo + 1, in
\* that order, rnd[k] being the draw of the turn entered with currentIndex = k
\* (the run of turns is split in two halves to keep the evaluation shallow; a
\* swap never changes the length, and testing it makes the first half be
\* evaluated before the second half starts)
RECURSIVE ShuffleTurns(_, _, _, _)
ShuffleTurns(a, hi, lo, rnd) ==
  IF hi <= lo THEN a
  ELSE IF hi = lo + 1 THEN ShuffleStep(a, hi, rnd[hi])
  ELSE LET mid == (hi + lo) \div 2
           half == ShuffleTurns(a, hi, mid, rnd)
       IN IF Len(half) = Len(a) THEN ShuffleTurns(half, mid, lo, rnd) ELSE half

\* fyShuffle(iArray) under the draws rnd: the loop from currentIndex = length to 0
fyShuffle(a, rnd) == ShuffleTurns(a, Len(a), 0, rnd)

\* every way the draws of one fyShuffle of n elements can fall
DrawFns(n) == { d \in [1..n -> 0..(n - 1)] : \A c \in 1..n : d[c] \in RandomIndexes(c) }

\* three ways Math.random can fall over a whole shuffle: always the lowest
\* index, always the highest, always the middle one
RandomRuns == {"lowest", "highest", "middle"}

RunDraws(run, n) ==
  [c \in 1..n |-> CASE run = "lowest" -> 0
                    [] run = "highest" -> c - 1
                    [] OTHER -> (c - 1) \div 2]

\* the elements of the arrays shuffled turn by turn
ShufElems == 1..MaxArr

ShufInit ==
  /\ DBIdle
  /\ FnIdle
  /\ CardsIdle
  /\ SlidesIdle
  /\ shufPc = "loop"
  /\ input \in SeqsUpTo(ShufElems, MaxArr)
  /\ iArray = input
  /\ currentIndex = Len(input)
  /\ draws = <<>>

\* while (0 !== currentIndex): draw, decrement, swap
ShuffleTurn ==
  /\ shufPc = "loop"
  /\ currentIndex # 0
  /\ \E randomIndex \in RandomIndexes(currentIndex) :
       /\ iArray' = ShuffleStep(iArray, currentIndex, randomIndex)
       /\ draws' = Append(draws, randomIndex)
  /\ currentIndex' = currentIndex - 1
  /\ UNCHANGED <<shufPc, input, dbVars, slideVars, called, fnVars, cardVars>>

\* return iArray
ShuffleReturns ==
  /\ shufPc = "loop"
  /\ currentIndex = 0
  /\ shufPc' = "returned"
  /\ UNCHANGED <<iArray, currentIndex, input, draws, dbVars, slideVars, called, fnVars, cardVars>>

ShufNext ==
  \/ ShuffleTurn
  \/ ShuffleReturns

SpecShuffle == ShufInit /\ [][ShufNext]_vars

\* ------------------------------------------------------------- card-pdf.js
marginSize == 36

spaceBetweenGrids == 18

cellSizeW == 108

cellSizeH == 58

cols == 5

rows == 6

boxHeight == rows * cellSizeH

\* mutant: the space between the grids is taken off instead of added
bottomGridOffsetTooSmall == boxHeight - spaceBetweenGrids

bottomGridOffset == boxHeight + spaceBetweenGrids

\* the least number of options makeCards accepts
MinOptions == 200

\* largest num tried
MaxNum == 3

titleFillColor == "#ddd"

\* the rect calculateGrids pushes for (row, col), yOffset down the page
GridRect(row, col, yOffset) ==
  [x |-> marginSize + (col * cellSizeW),
   y |-> marginSize + yOffset + (row * cellSizeH),
   w |-> cellSizeW,
   h |-> cellSizeH,
   fillColor |-> IF row = 0 THEN titleFillColor ELSE "undefined"]

\* the rects one calculateGrids run pushes to a grid, row by row
GridRects(yOffset) ==
  [k \in 1..(rows * cols) |-> GridRect((k - 1) \div cols, (k - 1) % cols, yOffset)]

\* num < n
NumLT(a, n) == ~a.nan /\ a.val < n

\* num % 2 !== 0
NumIsOdd(a) == a.nan \/ a.val % 2 # 0

\* num += 1
NumInc(a) == IF a.nan THEN a ELSE Num(a.val + 1)

\* mutant: the loop runs while page <= num / 2
PageBelowHalfInclusive(pg, a) == ~a.nan /\ 2 * pg <= a.val

\* page < num / 2
PageBelowHalf(pg, a) == ~a.nan /\ 2 * pg < a.val

\* mutant: the least accepted num is 1
NumTooSmallOffByOne(n) == NumLT(n, 1)

\* makeCards: if (num < 2) throw
NumTooSmall(n) == NumLT(n, 2)

\* makeCards: if (!Array.isArray(options)) throw
NotAnArray(opts) == ~opts.isArray

\* makeCards: if (options.length < 200) throw
TooFewOptions(opts) == opts.length < MinOptions

\* which check of makeCards throws for these arguments, in the order of the code
ThrownBy(n, opts) ==
  IF NumTooSmall(n) THEN "num"
  ELSE IF NotAnArray(opts) THEN "notArray"
  ELSE IF TooFewOptions(opts) THEN "tooFew"
  ELSE "none"

\* array.slice(from, to), 0 <= from <= to
Slice(a, from, to) ==
  LET last == IF to < Len(a) THEN to ELSE Len(a)
  IN IF from >= last THEN <<>> ELSE SubSeq(a, from + 1, last)

\* what doc.text is handed: an entry of the pool, the free-space label, or undefined
PoolText(entry) == [kind |-> "pool", v |-> entry]

FreeSpace == [kind |-> "free", v |-> 0]

Undefined == [kind |-> "undefined", v |-> 0]

\* data[index], 0-based: undefined past the end
DataAt(data, index) ==
  IF index + 1 \in 1..Len(data) THEN PoolText(data[index + 1]) ELSE Undefined

\* fillBoxes: rowLimit
rowLimit == rows - 1

\* mutant: the free space is filled from the pool like every other cell
FillWriteNoFree(data, grid, free, row, col) ==
  LET gridIndex == row * rowLimit + col
      dataIndex == (row - 1) * rowLimit + col
  IN [gridIndex |-> gridIndex,
      text |-> DataAt(data, dataIndex),
      x |-> grid[gridIndex + 1].x,
      y |-> grid[gridIndex + 1].y + cellSizeH \div 2]

\* fillBoxes: the doc.text call of one turn of the inner loop, for one grid
FillWrite(data, grid, free, row, col) ==
  LET gridIndex == row * rowLimit + col
      dataIndex == (row - 1) * rowLimit + col
  IN [gridIndex |-> gridIndex,
      text |-> IF free /\ gridIndex = 17 THEN FreeSpace ELSE DataAt(data, dataIndex),
      x |-> grid[gridIndex + 1].x,
      y |-> grid[gridIndex + 1].y + cellSizeH \div 2]

\* fillBoxes: the writes to one grid, in the order of the loops
\* (row = 1..rows-1, col = 0..cols-1)
FillGrid(data, grid, free) ==
  [k \in 1..((rows - 1) * cols) |->
     FillWrite(data, grid, free, 1 + (k - 1) \div cols, (k - 1) % cols)]

fillBoxes(topData, bottomData, free, tGrid, bGrid) ==
  [top |-> FillGrid(topData, tGrid, free), bottom |-> FillGrid(bottomData, bGrid, free)]

\* cardTitles: title.toUpperCase().split('').slice(0, 5)
TitleChars(t) == Slice([k \in 1..Len(t) |-> ToUpper(t[k])], 0, 5)

\* cardTitles: the doc.text calls on one grid, col = 0..cols-1
TitleGrid(t, grid) ==
  LET chars == TitleChars(t)
  IN [k \in 1..cols |->
        [gridIndex |-> k - 1,
         text |-> IF k <= Len(chars) THEN chars[k] ELSE "undefined",
         x |-> grid[k].x,
         y |-> grid[k].y + cellSizeH \div 2]]

cardTitles(t, tGrid, bGrid) == [top |-> TitleGrid(t, tGrid), bottom |-> TitleGrid(t, bGrid)]

\* mutant: the next page is filled from what the last page left unused
NextPoolRemainder(pool, rnd) == Slice(fyShuffle(pool, rnd), 50, Len(pool))

\* makeCards: shuffled = fyShuffle(shuffled)
NextPool(pool, rnd) == fyShuffle(pool, rnd)

\* the default of the title parameter
T_movie == <<"M", "O", "V", "I", "E">>

\* the titles makeCards is called with
CardTitleArgs == {T_movie, <<"g", "o">>}

Nums == { Num(n) : n \in (0 - 1)..MaxNum } \cup {NaN}

\* the elements of an options argument: pairwise distinct entries 1, 2, ...
OptionItems(opts) == [k \in 1..opts.length |-> k]

\* mutant: shuffled is the caller's array itself, and the shuffle writes into it
AfterShuffleAliased(callerItems, pool) == [options |-> pool, shuffled |-> pool]

\* let shuffled = options.slice(); shuffled = fyShuffle(shuffled): the shuffle
\* swaps inside the copy, which fyShuffle returns; the caller's array is not written
AfterShuffle(callerItems, pool) == [options |-> callerItems, shuffled |-> pool]

\* const topData = shuffled.slice(0, 25)
TopSlice(pool) == Slice(pool, 0, 25)

\* mutant: the bottom card starts at the last entry of the top card
BottomSliceOverlaps(pool) == Slice(pool, 24, 49)

\* const bottomData = shuffled.slice(25, 50)
BottomSlice(pool) == Slice(pool, 25, 50)

\* arrays around the limit, and a string (which has a length, and is no array)
OptionArgs ==
  { [isArray |-> TRUE, length |-> n] : n \in {0, MinOptions - 1, MinOptions, MinOptions + 1} }
    \cup { [isArray |-> FALSE, length |-> MinOptions + 1] }

CardsInit ==
  /\ DBIdle
  /\ FnIdle
  /\ ShufIdle
  /\ SlidesIdle
  /\ CardsIdle

\* makeCards called with arguments one of its checks rejects: it throws
MakeCardsThrows ==
  /\ cardPc \in {"idle", "returned", "threw"}
  /\ calls < MaxCalls
  /\ \E n \in Nums, opts \in OptionArgs :
       /\ ThrownBy(n, opts) # "none"
       /\ callNum' = n
       /\ num' = IF ThrownBy(n, opts) # "num" /\ NumIsOdd(n) THEN NumInc(n) ELSE n
       /\ options' = opts
       /\ items' = OptionItems(opts)
       /\ threw' = ThrownBy(n, opts)
  /\ useFree' \in BOOLEAN
  /\ title' \in CardTitleArgs
  /\ cardPc' = "threw"
  /\ calls' = calls + 1
  /\ doc' = [created |-> FALSE, pages |-> 0]
  /\ page' = 0
  /\ shuffled' = <<>>
  /\ drawn' = NothingDrawn
  /\ gridsAtCall' = <<Len(topGrid), Len(bottomGrid)>>
  /\ UNCHANGED <<topGrid, bottomGrid, dbVars, slideVars, called, fnVars, shufVars>>

\* makeCards called with arguments that pass: the document is created and
\* calculateGrids pushes its rects onto the module's two arrays
MakeCardsStarts ==
  /\ cardPc \in {"idle", "returned", "threw"}
  /\ calls < MaxCalls
  /\ \E n \in Nums, opts \in OptionArgs :
       /\ ThrownBy(n, opts) = "none"
       /\ callNum' = n
       /\ num' = IF NumIsOdd(n) THEN NumInc(n) ELSE n
       /\ options' = opts
       /\ items' = OptionItems(opts)
       /\ shuffled' = OptionItems(opts)
  /\ useFree' \in BOOLEAN
  /\ title' \in CardTitleArgs
  /\ threw' = "none"
  /\ cardPc' = "paging"
  /\ calls' = calls + 1
  /\ doc' = [created |-> TRUE, pages |-> 0]
  /\ page' = 0
  /\ drawn' = NothingDrawn
  /\ gridsAtCall' = <<Len(topGrid), Len(bottomGrid)>>
  /\ topGrid' = topGrid \o GridRects(0)
  /\ bottomGrid' = bottomGrid \o GridRects(bottomGridOffset)
  /\ UNCHANGED <<dbVars, slideVars, called, fnVars, shufVars>>

\* one turn of the page loop: doc.addPage(), the titles, the shuffle of the
\* whole working pool, the two slices and fillBoxes
AddPage ==
  /\ cardPc = "paging"
  /\ PageBelowHalf(page, num)
  /\ doc' = [doc EXCEPT !.pages = doc.pages + 1]
  /\ \E run \in RandomRuns :
       LET pool == NextPool(shuffled, RunDraws(run, Len(shuffled)))
           after == AfterShuffle(items, pool)
           topData == TopSlice(pool)
           bottomData == BottomSlice(pool)
           titles == cardTitles(title, topGrid, bottomGrid)
           cells == fillBoxes(topData, bottomData, useFree, topGrid, bottomGrid)
       IN /\ shuffled' = after.shuffled
          /\ items' = after.options
          /\ drawn' = [titleTop |-> titles.top, titleBottom |-> titles.bottom,
                       top |-> cells.top, bottom |-> cells.bottom]
  /\ page' = page + 1
  /\ UNCHANGED <<cardPc, calls, callNum, num, options, threw, topGrid, bottomGrid,
                 gridsAtCall, useFree, title, dbVars, slideVars, called, fnVars, shufVars>>

\* the loop ends: return doc
MakeCardsReturns ==
  /\ cardPc = "paging"
  /\ ~PageBelowHalf(page, num)
  /\ cardPc' = "returned"
  /\ UNCHANGED <<calls, callNum, num, options, items, doc, page, threw, topGrid, bottomGrid,
                 gridsAtCall, useFree, title, shuffled, drawn, dbVars, slideVars, called,
                 fnVars, shufVars>>

CardsNext ==
  \/ MakeCardsThrows
  \/ MakeCardsStarts
  \/ AddPage
  \/ MakeCardsReturns

SpecCards == CardsInit /\ [][CardsNext]_vars

\* ------------------------------------------- count.js: the round generator
gameLength == 200

\* how many more complete titles than gameLength - 1 the largest database holds
MaxExtra == 1

\* `${movie.movieTitle} (${movie.movieYear})`
NameOf(movie) == movie.movieTitle \o <<" ", "(">> \o movie.movieYear \o <<")">>

\* readMovieDB: the complete entries, reduced to a Map from name to the stills of
\* that name; a Map keeps its keys in the order they were first set, so the
\* keys are the names at their first occurrence
readMovieDB(dbMovies) ==
  LET kept == SelectSeq(dbMovies, LAMBDA movie : movie.movieTitle # <<>> /\ movie.movieYear # <<>>)
      firsts == SelectSeq([k \in 1..Len(kept) |-> k],
                          LAMBDA k : \A j \in 1..(k - 1) : NameOf(kept[j]) # NameOf(kept[k]))
  IN [x \in 1..Len(firsts) |->
        LET key == NameOf(kept[firsts[x]])
            same == SelectSeq(kept, LAMBDA movie : NameOf(movie) = key)
        IN [name |-> key, stills |-> [k \in 1..Len(same) |-> same[k].filePath]]]

\* mutant: the draw can be max itself
getRandomIntInclusive(max, run) ==
  CASE run = "lowest" -> 0
    [] run = "highest" -> max
    [] OTHER -> max \div 2

\* getRandomInt(max): Math.floor(Math.random() * Math.floor(max)), for a draw
\* of Math.random() near 0, near 1 or in the middle
getRandomInt(max, run) ==
  CASE run = "lowest" -> 0
    [] run = "highest" -> max - 1
    [] OTHER -> max \div 2

\* stills[index], <<>> for undefined
StillAt(stills, index) == IF index < Len(stills) THEN stills[index + 1] ELSE <<>>

\* dedupeRandom: every name keeps one of its stills
dedupeRandom(map, run) ==
  [x \in 1..Len(map) |->
     [name |-> map[x].name,
      still |-> IF Len(map[x].stills) > 1
                THEN StillAt(map[x].stills, getRandomInt(Len(map[x].stills), run))
                ELSE map[x].stills[1]]]

\* movieMap.get(name), <<>> for undefined
MovieMapGet(map, name) ==
  LET hits == SelectSeq(map, LAMBDA kv : kv.name = name)
  IN IF hits = <<>> THEN <<>> ELSE hits[1].still

\* a database entry nobody edited by hand: complete, its own title
FillerEntry(k) ==
  Entry(StillPath(<<"m">> \o NumStr(k) \o <<".", "p", "n", "g">>), <<"M">> \o NumStr(k), Y_old)

\* the head of a database: nothing, or two stills of one film, a film of the
\* same title from another year and an entry without a year
RoundHeads ==
  { <<>>,
    << Entry(StillPath(N_jaws), S_jaws, Y_old),
       Entry(StillPath(N_up), S_up, <<>>),
       Entry(StillPath(N_shark), S_jaws, Y_old),
       Entry(StillPath(N_gone), S_jaws, Y_typed) >> }

\* databases with no complete title, and with about gameLength of them
RoundDBs ==
  { head \o [k \in 1..n |-> FillerEntry(k)] :
      head \in RoundHeads, n \in {0} \cup ((gameLength - 1)..(gameLength - 1 + MaxExtra)) }

\* what the operator types for the card count, as +input
TypedNums == {Num(1), Num(2), NaN}

\* the card counts the prompt's validate lets through: !(num < 2)
ValidatedNums == { n \in TypedNums : ~NumLT(n, 2) }

RoundInit ==
  /\ pc = "off"
  /\ \E db \in RoundDBs : DBStart(<<>>, db)
  /\ FnIdle
  /\ CardsIdle
  /\ ShufIdle
  /\ slidePc = "start"
  /\ names = <<>>
  /\ sheet = <<>>
  /\ completed = <<>>
  /\ deck = <<>>
  /\ saved = [written |-> FALSE, slides |-> <<>>]
  /\ movieMap = <<>>

\* main: readMovieDB, removeDuplicates
RoundReads ==
  /\ slidePc = "start"
  /\ \E run \in RandomRuns : movieMap' = dedupeRandom(readMovieDB(json.movies), run)
  /\ slidePc' = "shuffle"
  /\ UNCHANGED <<names, sheet, completed, deck, saved, dbVars, fnVars, called, cardVars, shufVars>>

\* main: names, shuffledNames = fyShuffle(names).slice(0, gameLength)
RoundShuffles ==
  /\ slidePc = "shuffle"
  /\ \E run \in RandomRuns :
       LET keys == [x \in 1..Len(movieMap) |-> movieMap[x].name]
       IN names' = Slice(fyShuffle(keys, RunDraws(run, Len(keys))), 0, gameLength)
  /\ slidePc' = "sheet"
  /\ UNCHANGED <<sheet, completed, deck, saved, movieMap, dbVars, fnVars, called, cardVars, shufVars>>

\* main: writeSlideCallSheet(shuffledNames), which writes or logs its failure
RoundCallSheet ==
  /\ slidePc = "sheet"
  /\ sheet' \in {CallSheetLines(names), sheet}
  /\ slidePc' = "pptx"
  /\ UNCHANGED <<names, completed, deck, saved, movieMap, dbVars, fnVars, called, cardVars, shufVars>>

\* main: slides, await writePptx(slides): every metadata call resolved (in
\* whatever order), slide idx is added with the image slides[idx], the size
\* reported for it and the text idx + 1, and the file is saved
RoundPptx ==
  /\ slidePc = "pptx"
  /\ completed' = [k \in 1..Len(names) |-> k]
  /\ deck' = [idx \in 1..Len(names) |->
                LET slidePath == MovieMapGet(movieMap, names[idx])
                IN [path |-> slidePath, w |-> metadata(slidePath).width \div 72,
                    text |-> NumStr(idx)]]
  /\ saved' = [written |-> TRUE, slides |-> deck']
  /\ slidePc' = "prompt"
  /\ UNCHANGED <<names, sheet, movieMap, dbVars, fnVars, called, cardVars, shufVars>>

\* writePptx: a metadata call rejects, the catch calls process.exit(1)
RoundPptxFails ==
  /\ slidePc = "pptx"
  /\ names # <<>>
  /\ slidePc' = "exited"
  /\ UNCHANGED <<names, sheet, completed, deck, saved, movieMap, dbVars, fnVars, called,
                 cardVars, shufVars>>

\* main: the card count is typed, makeCards(cardCount, shuffledNames, true) is
\* called; a throw rejects main's promise, which nobody handles
RoundMakeCards ==
  /\ slidePc = "prompt"
  /\ \E n \in ValidatedNums :
       LET opts == [isArray |-> TRUE, length |-> Len(names)]
           thrown == ThrownBy(n, opts)
       IN /\ callNum' = n
          /\ num' = IF thrown # "num" /\ NumIsOdd(n) THEN NumInc(n) ELSE n
          /\ options' = opts
          /\ items' = names
          /\ threw' = thrown
          /\ cardPc' = IF thrown = "none" THEN "paging" ELSE "threw"
          /\ slidePc' = IF thrown = "none" THEN "cards" ELSE "threw"
          /\ doc' = [created |-> thrown = "none", pages |-> 0]
          /\ shuffled' = IF thrown = "none" THEN names ELSE <<>>
          /\ topGrid' = IF thrown = "none" THEN topGrid \o GridRects(0) ELSE topGrid
          /\ bottomGrid' = IF thrown = "none" THEN bottomGrid \o GridRects(bottomGridOffset)
                           ELSE bottomGrid
  /\ useFree' = TRUE
  /\ title' = T_movie
  /\ calls' = calls + 1
  /\ page' = 0
  /\ drawn' = NothingDrawn
  /\ gridsAtCall' = <<Len(topGrid), Len(bottomGrid)>>
  /\ UNCHANGED <<names, sheet, completed, deck, saved, movieMap, dbVars, fnVars, called, shufVars>>

\* main: cardsDoc.pipe(fs.createWriteStream(cardsFilename)); cardsDoc.end()
RoundWritesCards ==
  /\ slidePc = "cards"
  /\ cardPc = "returned"
  /\ slidePc' = "done"
  /\ UNCHANGED <<names, sheet, completed, deck, saved, movieMap, dbVars, fnVars, called,
                 cardVars, shufVars>>

RoundNext ==
  \/ RoundReads
  \/ RoundShuffles
  \/ RoundCallSheet
  \/ RoundPptx
  \/ RoundPptxFails
  \/ RoundMakeCards
  \/ AddPage
  \/ MakeCardsReturns
  \/ RoundWritesCards

SpecRound == RoundInit /\ [][RoundNext]_vars

\* ------------------------------------- fillBoxes and cardTitles, on their own
\* longest title tried
MaxTitleLen == 6

\* titles of every length up to the bound, in both cases
DrawTitles == SeqsUpTo({"m", "O"}, MaxTitleLen)

\* the two lengths the documentation of fillBoxes names: 24 and 25
FillLens == {(rows * cols) - cols - 1, (rows * cols) - cols}

\* data for the top and for the bottom card, as two slices of one pool
FillArgs ==
  { [op |-> "fillBoxes", topData |-> [k \in 1..a |-> k], bottomData |-> [k \in 1..b |-> 25 + k],
     useFree |-> f, title |-> <<>>] : a \in FillLens, b \in FillLens, f \in BOOLEAN }

TitleArgs ==
  { [op |-> "cardTitles", topData |-> <<>>, bottomData |-> <<>>, useFree |-> TRUE, title |-> t] :
      t \in DrawTitles }

\* calculateGrids has run once, makeCards is not running
DrawInit ==
  /\ DBIdle
  /\ ShufIdle
  /\ SlidesIdle
  /\ called = NoArg
  /\ CardsLocalsIdle
  /\ topGrid = GridRects(0)
  /\ bottomGrid = GridRects(bottomGridOffset)
  /\ arg \in FillArgs \cup TitleArgs
  /\ ret = [op |-> "none", value |-> <<>>]

ApplyFillBoxes ==
  /\ arg.op = "fillBoxes"
  /\ ret.op = "none"
  /\ ret' = [op |-> "fillBoxes",
             value |-> fillBoxes(arg.topData, arg.bottomData, arg.useFree, topGrid, bottomGrid)]
  /\ UNCHANGED <<arg, dbVars, slideVars, called, cardVars, shufVars>>

ApplyCardTitles ==
  /\ arg.op = "cardTitles"
  /\ ret.op = "none"
  /\ ret' = [op |-> "cardTitles", value |-> cardTitles(arg.title, topGrid, bottomGrid)]
  /\ UNCHANGED <<arg, dbVars, slideVars, called, cardVars, shufVars>>

DrawNext ==
  \/ ApplyFillBoxes
  \/ ApplyCardTitles

SpecDraw == DrawInit /\ [][DrawNext]_vars

\* ------------------------------------------------------------------ claims
\* position of the first entry of list with file path p (0 when there is none)
IndexOfPath(list, p) ==
  IF \E k \in 1..Len(list) : list[k].filePath = p
  THEN CHOOSE k \in 1..Len(list) :
         list[k].filePath = p /\ \A j \in 1..(k - 1) : list[j].filePath # p
  ELSE 0

IndexOf(list, x) ==
  IF \E k \in 1..Len(list) : list[k] = x
  THEN CHOOSE k \in 1..Len(list) : list[k] = x /\ \A j \in 1..(k - 1) : list[j] # x
  ELSE 0

\* C1: once the operator has answered quit in a list-mode loop, no prompt is shown
\* any more (the program is writing movies.json or has exited), and the list
\* handed to writeMovieDB, and movies.json once that write has resolved, holds
\* every entry answered before the quit with the title and year the answer produced.
C1_QuitKeepsAnswers ==
  quit =>
    /\ pc \in {"writing", "exited"}
    /\ \A j \in 1..Len(answers) : Includes(wbuf.movies, answers[j])
    /\ exitCause = "quit" =>
         /\ ~json.partial
         /\ \A j \in 1..Len(answers) : Includes(json.movies, answers[j])

\* C1 witness: the process ended by a quit at the second entry of a loop
C1_Witness ==
  /\ exitCause = "quit"
  /\ Len(answers) >= 1
  /\ Len(movies) > Len(answers)

\* C2 (as claimed): when the process ends on SIGINT received at an operator prompt
\* or during the remote lookup, movies.bak.json has been written and holds the
\* edits made so far merged into the full movie list.
C2_SigintWritesMergedBackup ==
  (exitCause = "sigint" /\ exitAt \in PromptPcs \cup {"tmdbSearch"}) =>
    /\ bak.written
    /\ bak.movies = mergeUpdates(newMovies, movieDB.movies)

\* C3: at every operator prompt, the latest completed edit of every file is in
\* movies.bak.json or in movies.json.
C3_EditsBackedUp ==
  pc \in PromptPcs =>
    \A e \in edits :
      \/ bak.written /\ Includes(bak.movies, e)
      \/ ~json.partial /\ Includes(json.movies, e)

\* C3 witness: a prompt is open and an edit so far lives in the backup only
C3_Witness ==
  /\ pc \in PromptPcs
  /\ \E e \in edits : Includes(bak.movies, e) /\ ~Includes(json.movies, e)

\* C4 (as claimed): when the operator quits the loop over the n incomplete entries
\* after k answers, movies.bak.json at exit holds the k answered entries and the
\* n - k others as they were, and the exit code is 0.
C4_QuitBackupHoldsAll ==
  (exitCause = "quit" /\ phase = "new") =>
    /\ exitCode = EXIT_OK
    /\ bak.written
    /\ \A j \in 1..Len(movies) :
         Includes(bak.movies, IF j <= Len(answers) THEN answers[j] ELSE movies[j])

\* C5 (as claimed): every list handed to writeMovieDB holds every file path of
\* the reconciled list.
C5_WritesKeepReconciled ==
  pc = "writing" => FilePaths(reconciled) \subseteq FilePaths(wbuf.movies)

\* C6: mergeUpdates(edited, full) has the length of full; position i holds the
\* entry of edited with the file path of full[i] if there is one, else full[i];
\* so the file paths are those of full, in full's order, and an entry that is
\* only in edited is not in the result.
C6_MergeByPosition ==
  ret.op = "mergeUpdates" =>
    /\ Len(ret.value) = Len(arg.full)
    /\ \A k \in 1..Len(arg.full) :
         LET at == IndexOfPath(arg.edited, arg.full[k].filePath)
         IN /\ ret.value[k] = IF at > 0 THEN arg.edited[at] ELSE arg.full[k]
            /\ ret.value[k].filePath = arg.full[k].filePath
    /\ \A k \in 1..Len(arg.edited) :
         IndexOfPath(arg.full, arg.edited[k].filePath) = 0 => ~Includes(ret.value, arg.edited[k])

\* C6 witness: one entry replaced, one passed through, one edited entry unmatched
C6_Witness ==
  /\ ret.op = "mergeUpdates"
  /\ \E k \in 1..Len(arg.full) : ret.value[k] # arg.full[k]
  /\ \E k \in 1..Len(arg.full) : IndexOfPath(arg.edited, arg.full[k].filePath) = 0
  /\ \E k \in 1..Len(arg.edited) : IndexOfPath(arg.full, arg.edited[k].filePath) = 0

\* C7: removeDeletedFilesFromDB(db, scan) is exactly the entries of db whose file
\* path is in scan, unchanged and in their order in db.
C7_RemoveDeleted ==
  ret.op = "removeDeletedFilesFromDB" =>
    /\ \A k \in 1..Len(ret.value) :
         Includes(arg.full, ret.value[k]) /\ Includes(arg.fileList, ret.value[k].filePath)
    /\ \A k \in 1..Len(arg.full) :
         Includes(arg.fileList, arg.full[k].filePath) => Includes(ret.value, arg.full[k])
    /\ Len(ret.value)
         = Cardinality({ k \in 1..Len(arg.full) : Includes(arg.fileList, arg.full[k].filePath) })
    /\ \A a, b \in 1..Len(ret.value) :
         a < b => IndexOf(arg.full, ret.value[a]) < IndexOf(arg.full, ret.value[b])

\* C7 witness: one entry kept and one dropped
C7_Witness ==
  /\ ret.op = "removeDeletedFilesFromDB"
  /\ Len(ret.value) >= 1
  /\ Len(ret.value) < Len(arg.full)

\* the scanned paths that end up in the list: already known, or stat succeeds
AcceptedPaths(known, fileList, statOK) ==
  { p \in Range(fileList) : p \in known \/ p \in statOK }

\* C8: addNewFilesToDB(db, scan) is db followed by one blank entry for every
\* scanned path that is not in db and can be stat'ed, in scan order, and nothing
\* else; after drop-then-add the file paths of the list are the accepted scanned
\* paths.
C8_AddNewFiles ==
  /\ ret.op = "addNewFilesToDB" =>
       LET n == Len(arg.full)
           r == ret.value
           added == (n + 1)..Len(r)
       IN /\ Len(r) >= n
          /\ TakeFirst(r, n) = arg.full
          /\ \A j \in added :
               /\ r[j].movieTitle = <<>>
               /\ r[j].movieYear = <<>>
               /\ Includes(arg.fileList, r[j].filePath)
               /\ r[j].filePath \notin FilePaths(arg.full)
               /\ r[j].filePath \in arg.statOK
          /\ \A p \in Range(arg.fileList) :
               (p \notin FilePaths(arg.full) /\ p \in arg.statOK)
                 => Cardinality({ j \in added : r[j].filePath = p }) = 1
          /\ \A a, b \in added :
               a < b => IndexOf(arg.fileList, r[a].filePath) < IndexOf(arg.fileList, r[b].filePath)
  /\ ret.op = "reconcile" =>
       FilePaths(ret.value) = AcceptedPaths(FilePaths(arg.full), arg.fileList, arg.statOK)

\* C8 witness: a reconciliation that keeps one entry, drops one and adds one
C8_Witness ==
  /\ ret.op = "reconcile"
  /\ \E k \in 1..Len(arg.full) : Includes(ret.value, arg.full[k])
  /\ \E k \in 1..Len(arg.full) : ~Includes(ret.value, arg.full[k])
  /\ \E k \in 1..Len(ret.value) : ret.value[k].filePath \notin FilePaths(arg.full)

\* C9: no two entries of a movie list share a file path: in memory, in the lists
\* the edit functions hold, in what is being written and in the files.
C9_UniqueFilePaths ==
  /\ DistinctPaths(movieDB.movies)
  /\ DistinctPaths(oldMovies)
  /\ DistinctPaths(movies)
  /\ DistinctPaths(newMovies)
  /\ DistinctPaths(wbuf.movies)
  /\ DistinctPaths(json.movies)
  /\ DistinctPaths(bak.movies)

\* C9 witness: the listing repeated a picture name, and the run edited and merged
C9_Witness ==
  /\ \E a, b \in 1..Len(dir) : a # b /\ dir[a] = dir[b] /\ isFilenameOK(dir[a])
  /\ exitCause = "done"
  /\ edits # {}
  /\ Len(json.movies) >= 1

\* C10: makeCards throws exactly when num < 2, options is no array or
\* options.length < 200, and when it throws no document was created, no page
\* added and no rect pushed onto either grid.
C10_BadArgsThrowFirst ==
  calls > 0 =>
    LET bad == \/ (~callNum.nan /\ callNum.val < 2)
               \/ ~options.isArray
               \/ options.length < 200
    IN /\ bad <=> cardPc = "threw"
       /\ cardPc = "threw" =>
            /\ ~doc.created
            /\ doc.pages = 0
            /\ <<Len(topGrid), Len(bottomGrid)>> = gridsAtCall

\* C10 witness: makeCards(2, pool of 199) threw, after a call that rendered
C10_Witness ==
  /\ cardPc = "threw"
  /\ callNum = Num(2)
  /\ options = [isArray |-> TRUE, length |-> 199]
  /\ Len(topGrid) > 0

\* C11: when makeCards(num, pool) returns for an integer num >= 2, the document
\* has ceil(num/2) pages, which is num cards for an even num and num + 1 cards
\* for an odd one, two cards written on every page.
C11_PagesAreHalfRoundedUp ==
  (cardPc = "returned" /\ ~callNum.nan /\ callNum.val >= 2) =>
    /\ doc.pages = (callNum.val + 1) \div 2
    /\ 2 * doc.pages = IF callNum.val % 2 = 0 THEN callNum.val ELSE callNum.val + 1
    /\ Len(drawn.top) > 0 /\ Len(drawn.bottom) > 0

\* C11 witness: makeCards(3, pool of 200) returned with 2 pages
C11_Witness ==
  /\ cardPc = "returned"
  /\ callNum = Num(3)
  /\ options = [isArray |-> TRUE, length |-> 200]
  /\ doc.pages = 2

\* C12: at every turn of the page loop the working pool is a permutation of the
\* whole pool passed in; the top card's cells are filled from positions 0..24
\* and the bottom card's from positions 25..49 of that page's shuffle, and no
\* cell is handed undefined.
C12_WholePoolEveryPage ==
  cardPc \in {"paging", "returned"} =>
    /\ Len(shuffled) = options.length
    /\ Range(shuffled) = 1..options.length
    /\ \A k \in 1..Len(drawn.top) :
         /\ drawn.top[k].text \in {FreeSpace, PoolText(shuffled[k])}
         /\ drawn.bottom[k].text \in {FreeSpace, PoolText(shuffled[25 + k])}
         /\ drawn.top[k].text # Undefined
         /\ drawn.bottom[k].text # Undefined

\* C12 witness: the second page of a call, filled from a pool that is no longer
\* in the order it was passed in
C12_Witness ==
  /\ cardPc = "paging"
  /\ page = 2
  /\ Len(drawn.top) = 25
  /\ \E k \in 1..Len(shuffled) : shuffled[k] # k

\* occurrences of x in a
Count(a, x) == Cardinality({ k \in 1..Len(a) : a[k] = x })

\* C13: fyShuffle makes exactly length(S) turns of its loop (the turns made and
\* the turns left always add up to the length) and returns an array with the
\* same length as S and every element as often as in S.
C13_ShuffleKeepsMultiset ==
  /\ shufPc \in {"loop", "returned"} =>
       /\ currentIndex + Len(draws) = Len(input)
       /\ Len(iArray) = Len(input)
  /\ shufPc = "returned" =>
       /\ Len(draws) = Len(input)
       /\ \A x \in Range(input) \cup Range(iArray) : Count(iArray, x) = Count(input, x)

\* C13 witness: an array with a repeated element came back in another order
C13_Witness ==
  /\ shufPc = "returned"
  /\ Len(input) = MaxArr
  /\ \E j, k \in 1..Len(input) : j # k /\ input[j] = input[k]
  /\ iArray # input

RECURSIVE Factorial(_)
Factorial(n) == IF n <= 1 THEN 1 ELSE n * Factorial(n - 1)

\* the draws of the finished shuffle, by the currentIndex they were drawn at
DrawsMade == [c \in 1..Len(input) |-> draws[Len(input) - c + 1]]

\* C14: for an array of n distinct elements, the n * (n-1) * ... * 1 ways the
\* draws can fall give n! different orderings: no other way gives the ordering
\* that was returned, and every ordering is a permutation of the array.
C14_ShuffleIsUnbiased ==
  (shufPc = "returned" /\ \A j, k \in 1..Len(input) : j # k => input[j] # input[k]) =>
    LET n == Len(input)
        orderings == { fyShuffle(input, d) : d \in DrawFns(n) }
    IN /\ iArray = fyShuffle(input, DrawsMade)
       /\ \A d \in DrawFns(n) : fyShuffle(input, d) = iArray => d = DrawsMade
       /\ Cardinality(DrawFns(n)) = Factorial(n)
       /\ Cardinality(orderings) = Factorial(n)
       /\ \A o \in orderings : Len(o) = n /\ Range(o) = Range(input)

\* C14 witness: a shuffle of the longest array of distinct elements, reversed
C14_Witness ==
  /\ shufPc = "returned"
  /\ Len(input) = MaxArr
  /\ \A j, k \in 1..Len(input) : j # k => input[j] # input[k]
  /\ \A k \in 1..Len(input) : iArray[k] = input[Len(input) - k + 1]

\* C15 (as claimed): once the grids are computed, the top grid and the bottom
\* grid hold exactly rows * cols rectangles each, whatever the number of calls.
C15_GridsComputedOnce ==
  (Len(topGrid) > 0 \/ Len(bottomGrid) > 0) =>
    /\ Len(topGrid) = rows * cols
    /\ Len(bottomGrid) = rows * cols

\* two rectangles share interior area
Overlap(a, b) ==
  /\ a.x < b.x + b.w
  /\ b.x < a.x + a.w
  /\ a.y < b.y + b.h
  /\ b.y < a.y + a.h

\* C16: the rectangles one run of calculateGrids pushes are rows * cols per
\* grid, no two of them overlap, within a grid or across the two grids, and the
\* title fill colour is on the rectangles of row 0 and on no other.
C16_RectsDisjointTitleRowMarked ==
  cardPc \in {"paging", "returned"} =>
    LET t == SubSeq(topGrid, gridsAtCall[1] + 1, Len(topGrid))
        b == SubSeq(bottomGrid, gridsAtCall[2] + 1, Len(bottomGrid))
    IN /\ Len(t) = rows * cols
       /\ Len(b) = rows * cols
       /\ \A j, k \in 1..Len(t) : j # k => ~Overlap(t[j], t[k]) /\ ~Overlap(b[j], b[k])
       /\ \A j \in 1..Len(t), k \in 1..Len(b) : ~Overlap(t[j], b[k])
       /\ \A k \in 1..Len(t) :
            /\ t[k].fillColor = titleFillColor <=> k <= cols
            /\ b[k].fillColor = titleFillColor <=> k <= cols

\* C16 witness: the second run of calculateGrids in one process
C16_Witness ==
  /\ cardPc = "paging"
  /\ gridsAtCall = <<rows * cols, rows * cols>>
  /\ Len(topGrid) = 2 * rows * cols

\* the writes of one card that show the free-space label / an entry of the pool
FreeWrites(w) == { k \in 1..Len(w) : w[k].text = FreeSpace }

PoolWrites(w) == { k \in 1..Len(w) : w[k].text.kind = "pool" }

\* one card's cells, as C17 wants them
CardCellsOK(w, grid, free) ==
  /\ \A j, k \in 1..Len(w) : j # k => w[j].gridIndex # w[k].gridIndex
  /\ \A k \in 1..Len(w) :
       /\ w[k].gridIndex \in cols..((rows * cols) - 1)
       /\ w[k].x = grid[w[k].gridIndex + 1].x
       /\ grid[w[k].gridIndex + 1].fillColor # titleFillColor
  /\ IF free
     THEN /\ Cardinality(FreeWrites(w)) = 1
          /\ \A k \in 1..Len(w) : w[k].gridIndex = (3 * cols) + 2 <=> w[k].text = FreeSpace
          /\ Cardinality(PoolWrites(w)) = (rows * cols) - cols - 1
     ELSE /\ FreeWrites(w) = {}
          /\ Cardinality(PoolWrites(w)) = (rows * cols) - cols

\* C17: on every card of every page, with useFree exactly one cell shows the
\* free-space label, the cell of row 3, column 2, which shows no pool entry,
\* and 24 other cells below the title row show pool entries; without useFree
\* no cell shows the label and 25 cells show pool entries.
C17_OneFixedFreeCell ==
  (cardPc \in {"paging", "returned"} /\ page > 0) =>
    /\ CardCellsOK(drawn.top, topGrid, useFree)
    /\ CardCellsOK(drawn.bottom, bottomGrid, useFree)

\* C17 witness: a page written with useFree
C17_Witness ==
  /\ cardPc = "paging"
  /\ page > 0
  /\ useFree
  /\ \E k \in 1..Len(drawn.top) : drawn.top[k].text = FreeSpace

\* the entries of data are written once each, in their order, cell after cell
\* in row-major order, and no cell is handed undefined
PlacedOnceInOrder(w, data) ==
  LET cells == SelectSeq(w, LAMBDA c : c.text # FreeSpace)
  IN /\ Len(cells) = Len(data)
     /\ \A k \in 1..Len(cells) :
          /\ k <= Len(data) => cells[k].text = PoolText(data[k])
          /\ k > 1 => cells[k - 1].gridIndex < cells[k].gridIndex

\* C18 (as claimed): fillBoxes with useFree and pools of exactly 24 entries
\* writes each entry once, in row-major order, to the 24 cells that are neither
\* title nor free space, each of which gets a defined entry.
C18_FreePoolOfTwentyFour ==
  (ret.op = "fillBoxes" /\ arg.useFree
     /\ Len(arg.topData) = (rows * cols) - cols - 1
     /\ Len(arg.bottomData) = (rows * cols) - cols - 1) =>
    /\ PlacedOnceInOrder(ret.value.top, arg.topData)
    /\ PlacedOnceInOrder(ret.value.bottom, arg.bottomData)
    /\ \A k \in 1..Len(ret.value.top) :
         ret.value.top[k].text # Undefined /\ ret.value.bottom[k].text # Undefined

\* C19 (as claimed): cardTitles writes cols defined characters on each card, the
\* upper-cased title cut to cols characters, whatever the length of the title.
C19_TitleFillsEveryColumn ==
  ret.op = "cardTitles" =>
    \A w \in {ret.value.top, ret.value.bottom} :
      /\ Len(w) = cols
      /\ \A k \in 1..Len(w) :
           /\ w[k].text # "undefined"
           /\ k <= Len(arg.title) => w[k].text = ToUpper(arg.title[k])

\* C20 (as claimed): a step in which searchMovie throws leaves the process
\* running and shows the decision prompt again for the same entry.
C20_LookupFailureRecovers ==
  [][TmdbThrows => (pc' = "askChanges" /\ cur' = cur /\ i' = i)]_vars

\* C21: movies.json changes only in a step of a running writeMovieDB, and then
\* to what that call serialised (or to a truncated file, see C22); a backup write
\* leaves it alone; every writeMovieDB call stamps lastScan with the current
\* time and writes a list that holds every edit collected so far (for the file
\* shown when the operator quit, the entry of that prompt, see C25).
C21_OnlyWriteMovieDBWrites ==
  [][/\ json' # json =>
          /\ pc = "writing"
          /\ json'.partial \/ (json'.movies = wbuf.movies /\ json'.lastScan = wbuf.lastScan)
     /\ (bak' # bak /\ pc # "writing") => json' = json
     /\ (pc' = "writing" /\ pc # "writing") =>
          /\ wbuf'.lastScan = clock
          /\ wbuf'.lastScan > json.lastScan
          /\ \A e \in edits' :
               \/ Includes(wbuf'.movies, e)
               \/ quit' /\ e.filePath = cur.filePath /\ Includes(wbuf'.movies, cur)]_vars

\* C21 witness: a run that edited, backed up, wrote twice and ended normally
C21_Witness ==
  /\ exitCause = "done"
  /\ json.lastScan >= 2
  /\ bak.written
  /\ \E e \in edits : Includes(json.movies, e)

\* C22 (as claimed): movies.json never holds a partial content.
C22_WriteIsAtomic == ~json.partial

\* the exit codes of the failure kinds
FailureCodes ==
  {FAILED_READING_MOVIES_JSON, STILLS_DIR_DOESNT_EXIST, UNABLE_TO_WRITE_MOVIE_DB,
   UNCAUGHT_ERROR, UNKNOWN_ERROR}

\* C23: the five failure codes are pairwise distinct and none is 0; a process
\* ended by a read failure, a missing stills directory, a write failure or an
\* uncaught error has exited with the code of that kind, a run that completed
\* has exited with 0, and a non-zero code is the code of the failure that ended it.
C23_ExitCodePerFailure ==
  /\ Cardinality(FailureCodes) = 5
  /\ 0 \notin FailureCodes
  /\ pc = "exited" =>
       /\ exitCause = "readfail" => exitCode = FAILED_READING_MOVIES_JSON
       /\ exitCause = "nostills" => exitCode = STILLS_DIR_DOESNT_EXIST
       /\ exitCause = "writefail" => exitCode = UNABLE_TO_WRITE_MOVIE_DB
       /\ exitCause = "uncaught" => exitCode = UNCAUGHT_ERROR
       /\ exitCause = "done" => exitCode = 0
       /\ exitCode # 0 => exitCause \in {"readfail", "nostills", "writefail", "uncaught"}

\* C23 witness: a write of edited entries failed
C23_Witness ==
  /\ pc = "exited"
  /\ exitCause = "writefail"
  /\ exitCode = UNABLE_TO_WRITE_MOVIE_DB
  /\ edits # {}

\* C24 (as claimed): a process ended by a read failure, a missing stills
\* directory, a write failure or an uncaught error has logged a message naming
\* movies.bak.json right before it exited.
C24_FatalPathsNameBackup ==
  (pc = "exited" /\ exitCause \in {"readfail", "nostills", "writefail", "uncaught"}) =>
    said \in {SaidBackupAt, SaidSomeError}

\* C25 (as claimed): after a quit, the entry the operator quit at and the entries
\* never shown are in movies.json with the title and year they had before.
C25_GuessNeedsConfirmation ==
  (exitCause = "quit" /\ ~json.partial) =>
    \A k \in i..Len(movies) : Includes(json.movies, movies[k])

\* C29: in a remote lookup, 'open still' shows the same candidates again for the
\* same entry and pushes nothing; no match or 'cancel' goes back to the decision
\* prompt of the same entry; a selection pushes the entry with the candidate's
\* title and year and the file path it had.
C29_LookupSideLoop ==
  [][/\ (pc = "tmdbChoose" /\ pc' = "tmdbChoose") =>
          /\ results' = results
          /\ cur' = cur /\ i' = i
          /\ newMovies' = newMovies /\ bak' = bak
     /\ (pc \in {"tmdbSearch", "tmdbChoose"} /\ Len(newMovies') = Len(newMovies)) =>
          /\ pc' \in {"tmdbChoose", "askChanges", "exited"}
          /\ pc' # "exited" => (cur' = cur /\ i' = i /\ newMovies' = newMovies)
     /\ (pc \in {"tmdbSearch", "tmdbChoose"} /\ Len(newMovies') # Len(newMovies)) =>
          /\ pc = "tmdbChoose"
          /\ Len(newMovies') = Len(newMovies) + 1
          /\ LET e == newMovies'[Len(newMovies')]
             IN /\ e.filePath = cur.filePath
                /\ e.filePath = movies[i].filePath
                /\ \E k \in 1..Len(results) :
                     e.movieTitle = results[k].movieTitle /\ e.movieYear = results[k].movieYear]_vars

\* C29 witness: the candidate list shown again after 'open still'
C29_Witness ==
  /\ pc = "tmdbChoose"
  /\ opened
  /\ Len(results) >= 1

\* the complete entries of list keep their place and content in written
CompleteKept(list, written) ==
  \A k \in 1..Len(list) :
    IsComplete(list[k]) => (k <= Len(written) /\ written[k] = list[k])

\* C30: once the operator has declined to update the existing entries, no
\* prompt shows an entry that was complete after reconciliation, and every
\* list written to movies.json holds each complete entry unchanged in its place.
C30_DeclineLeavesCompleteAlone ==
  declined =>
    /\ pc # "askEditOption"
    /\ pc \in PromptPcs => cur.filePath \notin FilePaths(CompleteOf(reconciled))
    /\ pc = "writing" => CompleteKept(reconciled, wbuf.movies)
    /\ (exitCause \in {"done", "quit"} /\ ~json.partial) => CompleteKept(reconciled, json.movies)

\* C30 witness: declined with a complete entry, an incomplete one answered, written
C30_Witness ==
  /\ declined
  /\ exitCause = "done"
  /\ \E k \in 1..Len(reconciled) : IsComplete(reconciled[k])
  /\ Len(answers) >= 1

\* C26: during and after a call of mergeUpdates both argument lists are what
\* the caller passed (same length, order, entries and fields), and the list
\* returned is the accumulator built beside them, one entry per old entry.
C26_MergeLeavesArguments ==
  ret.op \in {"reducing", "mergeUpdates"} =>
    /\ arg.edited = called.edited
    /\ arg.full = called.full
    /\ ret.op = "mergeUpdates" => ret.value = mergeUpdates(called.edited, called.full)

\* C26 witness: a call that replaced an entry of the old list has returned
C26_Witness ==
  /\ ret.op = "mergeUpdates"
  /\ Len(called.full) >= 2
  /\ \E k \in 1..Len(called.full) : ret.value[k] # called.full[k]

\* a name the listing filter must accept, stated on the characters
AcceptedName(n) ==
  /\ Len(n) >= 4
  /\ LastN(n, 4) \in {<<".", "p", "n", "g">>, <<".", "j", "p", "g">>, <<".", "g", "i", "f">>}
  /\ Head(n) # "."

\* C27: cleanUpFileList returns the stills path of every accepted name of the
\* listing and nothing else, each once, in the order of first occurrence.
C27_CleanListing ==
  ret.op = "cleanUpFileList" =>
    LET l == arg.fileList
        out == ret.value
    IN /\ \A n \in Range(l) : AcceptedName(n) <=> Includes(out, StillPath(n))
       /\ \A p \in Range(out) : \E n \in Range(l) : AcceptedName(n) /\ p = StillPath(n)
       /\ \A a, b \in 1..Len(out) : a # b => out[a] # out[b]
       /\ \A a, b \in 1..Len(out) :
            a < b => \E x \in 1..Len(l) :
                       /\ StillPath(l[x]) = out[a]
                       /\ \A y \in 1..x : StillPath(l[y]) # out[b]

\* C27 witness: a listing with a repeated image, a hidden file and another image
C27_Witness ==
  /\ ret.op = "cleanUpFileList"
  /\ arg.fileList = <<N_jaws, N_hidden, N_jaws>> \/ arg.fileList = <<N_gone, N_memo, N_up>>
  /\ Len(ret.value) \in {1, 2}

\* slide n of d shows the still chosen for the n-th name at its own size, is
\* numbered n, and line n of the call sheet, if one was written, is "n. name"
SlideMatchesLine(d, n) ==
  /\ d[n].path = movieMap[names[n]]
  /\ d[n].w * 72 = metadata(d[n].path).width
  /\ d[n].text = NumStr(n)
  /\ sheet # <<>> => sheet[n] = d[n].text \o <<".", " ">> \o names[n]

\* C28: every slide of the deck and of the saved file matches the call-sheet
\* line of its number, whatever the order the metadata calls completed in; the
\* file is saved only with one slide per name, after every call has completed.
C28_SlidesFollowCallSheet ==
  /\ \A n \in 1..Len(deck) : SlideMatchesLine(deck, n)
  /\ saved.written =>
       /\ Len(saved.slides) = Len(names)
       /\ Range(completed) = 1..Len(names)
       /\ \A n \in 1..Len(names) : SlideMatchesLine(saved.slides, n)

\* C28 witness: three slides saved, the metadata calls completed last to first
C28_Witness ==
  /\ saved.written
  /\ sheet # <<>>
  /\ completed = <<3, 2, 1>>

\* C31 (as claimed): in the list loop over the existing complete entries, the
\* entry pushed for an answer 'No' has the title and the year of the entry as
\* the database held it.
C31_KeepLeavesLoadedEntry ==
  [][(pc = "askChanges" /\ phase = "old" /\ mode = "list"
        /\ Len(newMovies') = Len(newMovies) + 1) =>
       /\ newMovies'[Len(newMovies')].movieTitle = movies[i].movieTitle
       /\ newMovies'[Len(newMovies')].movieYear = movies[i].movieYear]_vars

C32_OptionsLeftAlone ==
  calls > 0 => items = [k \in 1..options.length |-> k]

\* C32 witness: a call returned after shuffling its working pool
C32_Witness ==
  /\ cardPc = "returned"
  /\ doc.pages >= 1
  /\ shuffled # items
  /\ Len(items) = MinOptions

\* C33 (as claimed): a makeCards call that returned has added at least one page.
C33_ReturnedWithAPage ==
  cardPc = "returned" => doc.pages >= 1

\* the pool entries the writes w put on a card
PoolEntries(w) == { w[k].text.v : k \in PoolWrites(w) }

\* C34: on the page written last, from a pool of pairwise distinct entries, no
\* two cells of a card hold the same pool entry and the two cards share none.
C34_NoRepeatOnAPage ==
  (cardPc \in {"paging", "returned"} /\ Len(drawn.top) > 0) =>
    /\ \A a, b \in PoolWrites(drawn.top) :
         a # b => drawn.top[a].text # drawn.top[b].text
    /\ \A a, b \in PoolWrites(drawn.bottom) :
         a # b => drawn.bottom[a].text # drawn.bottom[b].text
    /\ PoolEntries(drawn.top) \cap PoolEntries(drawn.bottom) = {}

\* C34 witness: the second page of a call, both cards filled from the pool
C34_Witness ==
  /\ cardPc = "paging"
  /\ page = 2
  /\ Cardinality(PoolEntries(drawn.top)) >= 24
  /\ Cardinality(PoolEntries(drawn.bottom)) >= 24

\* the complete database entries called name
EntriesNamed(name) ==
  { k \in 1..Len(json.movies) :
      /\ json.movies[k].movieTitle # <<>>
      /\ json.movies[k].movieYear # <<>>
      /\ json.movies[k].movieTitle \o <<" ", "(">> \o json.movies[k].movieYear \o <<")">> = name }

\* C36: the names drawn are pairwise distinct and at most 200, each names a
\* complete database entry and is a key of the Map exactly once, with the file
\* path of an entry of that name as its still; the call sheet has a line for
\* each, the slides show those stills, and makeCards is passed these names.
C36_NamesOfTheRound ==
  /\ slidePc = "sheet" =>
       /\ Len(names) <= 200
       /\ \A a, b \in 1..Len(names) : a # b => names[a] # names[b]
       /\ \A n \in 1..Len(names) :
            LET entries == EntriesNamed(names[n])
                keys == { x \in 1..Len(movieMap) : movieMap[x].name = names[n] }
            IN /\ entries # {}
               /\ Cardinality(keys) = 1
               /\ \A x \in keys :
                    movieMap[x].still \in { json.movies[k].filePath : k \in entries }
  /\ (slidePc = "pptx" /\ sheet # <<>>) =>
       /\ Len(sheet) = Len(names)
       /\ \A n \in 1..Len(names) : sheet[n] = NumStr(n) \o <<".", " ">> \o names[n]
  /\ slidePc = "prompt" =>
       /\ Len(deck) = Len(names)
       /\ \A n \in 1..Len(names) :
            \E x \in 1..Len(movieMap) :
              movieMap[x].name = names[n] /\ deck[n].path = movieMap[x].still
  /\ slidePc \in {"cards", "threw", "done"} =>
       /\ items = names
       /\ Len(names) <= 200

\* C36 witness: 201 complete titles, one of them with two stills, 200 drawn
C36_Witness ==
  /\ slidePc = "done"
  /\ Len(names) = 200
  /\ Len(movieMap) > 200
  /\ \E x \in 1..Len(movieMap) : movieMap[x].still = StillPath(N_shark)

\* C37 (as claimed): a run whose database gave fewer than 200 names has written
\* no call sheet and no slideshow.
C37_AllOrNothing ==
  Len(names) < 200 => (sheet = <<>> /\ ~saved.written)

====
